---------------------------- MODULE Spec2Model ----------------------------
(***************************************************************************)
(* Blood donation request system: request creation (fraud scoring,         *)
(* priority, persistence, donor notification fan-out), request update,     *)
(* donor responses, the admin's review and status routes, the per-user     *)
(* rate limiter and the login lockout.                                     *)
(*                                                                         *)
(* Time is counted in whole hours.  Strings are sequences of one-character *)
(* strings so that toLowerCase, includes and replace(/\D/g,'') are         *)
(* computed rather than assumed.  A missing (undefined) string field is    *)
(* the value Undefined; calling a string method on it throws.              *)
(***************************************************************************)
EXTENDS Integers, Sequences, FiniteSets, TLC

VARIABLES
  now,      \* the clock, in hours
  db,       \* the stored blood request document, or NoRequest
  post,     \* the POST /api/blood-requests handler: position, in-memory document,
            \* the history counts it read, response, and the steps it has taken
  put,      \* the last PUT /api/blood-requests/:id exchange: response status, keys of
            \* the body, caller
  outbox,   \* donors to whom a notification e-mail has been handed to the transport
  ops,      \* bookkeeping: which operation computed the stored score and priority
  probe,    \* inputs and result of a direct call of a scoring function
  respond,  \* the POST /api/blood-requests/:id/respond calls in flight, and the
            \* notifications sent to the requester
  auth,     \* the login fields of one stored account, the login attempts in
            \* flight, and the last answer of login and of verifyToken
  limiter   \* one userRateLimit instance: its parameters, its userRequests map,
            \* and its last answer

vars == <<now, db, post, put, outbox, ops, probe, respond, auth, limiter>>

-----------------------------------------------------------------------------
(* Bounds of the model *)

MaxTicks == 2
MaxPuts == 1
MaxProbeUnits == 11
MaxCrowd == 70
MaxLockHours == 4

-----------------------------------------------------------------------------
(* Strings *)

Undefined == <<"<undefined>">>

LowerChar(c) ==
  CASE c = "A" -> "a" [] c = "B" -> "b" [] c = "C" -> "c" [] c = "D" -> "d"
    [] c = "E" -> "e" [] c = "F" -> "f" [] c = "G" -> "g" [] c = "H" -> "h"
    [] c = "I" -> "i" [] c = "J" -> "j" [] c = "K" -> "k" [] c = "L" -> "l"
    [] c = "M" -> "m" [] c = "N" -> "n" [] c = "O" -> "o" [] c = "P" -> "p"
    [] c = "Q" -> "q" [] c = "R" -> "r" [] c = "S" -> "s" [] c = "T" -> "t"
    [] c = "U" -> "u" [] c = "V" -> "v" [] c = "W" -> "w" [] c = "X" -> "x"
    [] c = "Y" -> "y" [] c = "Z" -> "z" [] OTHER -> c

RECURSIVE toLowerCase(_)
toLowerCase(s) ==
  IF s = <<>> THEN <<>> ELSE <<LowerChar(Head(s))>> \o toLowerCase(Tail(s))

includes(s, t) ==
  \E i \in 1..(Len(s) - Len(t) + 1) : SubSeq(s, i, i + Len(t) - 1) = t

DigitChars == {"0", "1", "2", "3", "4", "5", "6", "7", "8", "9"}

IsDigit(c) == c \in DigitChars

\* str.replace(/\D/g, '')
digitsOnly(s) == SelectSeq(s, IsDigit)

Min(a, b) == IF a < b THEN a ELSE b

Max(a, b) == IF a > b THEN a ELSE b

-----------------------------------------------------------------------------
(* Fraud detection service *)

\* The result of a sub-check that threw instead of returning a score.
Threw == 0 - 1

FrequencyCap == 25
LocationCap == 20
ContactCap == 15
TimingCap == 15
MedicalReasonCap == 10
HospitalCap == 15
ScoreCap == 100

\* the largest of the three window contributions taken instead of their sum
analyzeRequestFrequency_LargestWindow(counts) ==
  IF counts.fails THEN Threw
  ELSE
    LET daily   == IF counts.daily > 3 THEN 25
                   ELSE IF counts.daily > 2 THEN 15
                   ELSE IF counts.daily > 1 THEN 5 ELSE 0
        weekly  == IF counts.weekly > 10 THEN 20
                   ELSE IF counts.weekly > 7 THEN 10
                   ELSE IF counts.weekly > 5 THEN 5 ELSE 0
        monthly == IF counts.monthly > 20 THEN 15
                   ELSE IF counts.monthly > 15 THEN 8 ELSE 0
    IN Min(Max(daily, Max(weekly, monthly)), FrequencyCap)

\* the 24-hour tiers matched by equality: a count above 4 matches none
analyzeRequestFrequency_ExactDaily(counts) ==
  IF counts.fails THEN Threw
  ELSE
    LET daily   == IF counts.daily = 4 THEN 25
                   ELSE IF counts.daily = 3 THEN 15
                   ELSE IF counts.daily = 2 THEN 5 ELSE 0
        weekly  == IF counts.weekly > 10 THEN 20
                   ELSE IF counts.weekly > 7 THEN 10
                   ELSE IF counts.weekly > 5 THEN 5 ELSE 0
        monthly == IF counts.monthly > 20 THEN 15
                   ELSE IF counts.monthly > 15 THEN 8 ELSE 0
    IN Min(daily + weekly + monthly, FrequencyCap)

\* the frequency sub-score returned without its cap
analyzeRequestFrequency_Uncapped(counts) ==
  IF counts.fails THEN Threw
  ELSE
    LET daily   == IF counts.daily > 3 THEN 25
                   ELSE IF counts.daily > 2 THEN 15
                   ELSE IF counts.daily > 1 THEN 5 ELSE 0
        weekly  == IF counts.weekly > 10 THEN 20
                   ELSE IF counts.weekly > 7 THEN 10
                   ELSE IF counts.weekly > 5 THEN 5 ELSE 0
        monthly == IF counts.monthly > 20 THEN 15
                   ELSE IF counts.monthly > 15 THEN 8 ELSE 0
    IN daily + weekly + monthly

\* counts: the three countDocuments results, or fails = TRUE when a query rejects
analyzeRequestFrequency(counts) ==
  IF counts.fails THEN Threw
  ELSE
    LET daily   == IF counts.daily > 3 THEN 25
                   ELSE IF counts.daily > 2 THEN 15
                   ELSE IF counts.daily > 1 THEN 5 ELSE 0
        weekly  == IF counts.weekly > 10 THEN 20
                   ELSE IF counts.weekly > 7 THEN 10
                   ELSE IF counts.weekly > 5 THEN 5 ELSE 0
        monthly == IF counts.monthly > 20 THEN 15
                   ELSE IF counts.monthly > 15 THEN 8 ELSE 0
    IN Min(daily + weekly + monthly, FrequencyCap)

\* Coordinates are a position in km along one meridian, <<x>>, or the empty
\* array <<>>; on one meridian the haversine distance is the difference.
\* A missing coordinate makes the distance NaN, which is -1 here: every
\* comparison distance > k is then false, as with NaN.
calculateDistance(coords1, coords2) ==
  IF coords1 = <<>> \/ coords2 = <<>> THEN -1
  ELSE IF coords1[1] > coords2[1] THEN coords1[1] - coords2[1]
       ELSE coords2[1] - coords1[1]

\* the city and the state compared without toLowerCase()
analyzeLocationConsistency_CaseSensitive(bloodRequest, requester) ==
  LET distance == calculateDistance(requester.location.coordinates,
                                    bloodRequest.location.coordinates)
      tier == IF distance > 100 THEN 20
              ELSE IF distance > 50 THEN 10
              ELSE IF distance > 25 THEN 5 ELSE 0
  IN IF \/ requester.location.city = Undefined
        \/ bloodRequest.location.city = Undefined
        \/ requester.location.state = Undefined
        \/ bloodRequest.location.state = Undefined
     THEN Threw
     ELSE
       LET city  == IF requester.location.city # bloodRequest.location.city
                    THEN 10 ELSE 0
           state == IF requester.location.state # bloodRequest.location.state
                    THEN 15 ELSE 0
       IN Min(tier + city + state, LocationCap)

analyzeLocationConsistency(bloodRequest, requester) ==
  LET distance == calculateDistance(requester.location.coordinates,
                                    bloodRequest.location.coordinates)
      tier == IF distance > 100 THEN 20
              ELSE IF distance > 50 THEN 10
              ELSE IF distance > 25 THEN 5 ELSE 0
  IN IF \/ requester.location.city = Undefined
        \/ bloodRequest.location.city = Undefined
        \/ requester.location.state = Undefined
        \/ bloodRequest.location.state = Undefined
     THEN Threw
     ELSE
       LET city  == IF toLowerCase(requester.location.city)
                         # toLowerCase(bloodRequest.location.city) THEN 10 ELSE 0
           state == IF toLowerCase(requester.location.state)
                         # toLowerCase(bloodRequest.location.state) THEN 15 ELSE 0
       IN Min(tier + city + state, LocationCap)

\* the repetition counted as {5,}: six identical digits already match
isRepeatingPattern_SixDigits(str) ==
  \/ /\ Len(str) >= 6
     /\ \A i \in 1..Len(str) : IsDigit(str[i]) /\ str[i] = str[1]
  \/ str = <<"1","2","3","4","5","6","7","8","9","0">>
  \/ str = <<"0","1","2","3","4","5","6","7","8","9">>

isRepeatingPattern(str) ==
  \/ /\ Len(str) >= 7
     /\ \A i \in 1..Len(str) : IsDigit(str[i]) /\ str[i] = str[1]
  \/ str = <<"1","2","3","4","5","6","7","8","9","0">>
  \/ str = <<"0","1","2","3","4","5","6","7","8","9">>

analyzeContactPatterns(bloodRequest, requester) ==
  LET phone         == digitsOnly(bloodRequest.contactInfo.primaryPhone)
      doctorPhone   == digitsOnly(bloodRequest.doctorInfo.phone)
      hospitalPhone == digitsOnly(bloodRequest.hospital.phone)
      contactPhone  == phone
      differs == IF requester.phone # bloodRequest.contactInfo.primaryPhone THEN 5 ELSE 0
      pattern == IF isRepeatingPattern(phone) THEN 10 ELSE 0
      similar == IF \/ doctorPhone = hospitalPhone
                    \/ doctorPhone = contactPhone
                    \/ hospitalPhone = contactPhone THEN 8 ELSE 0
  IN Min(differs + pattern + similar, ContactCap)

\* t: the clock when the check runs; getHours() is t % 24
analyzeTimingPatterns(bloodRequest, t) ==
  LET hour == t % 24
      unusual == IF hour < 6 \/ hour > 23 THEN 5 ELSE 0
      hoursUntilRequired == bloodRequest.requiredBy - t
      until == IF hoursUntilRequired < 2 THEN 15
               ELSE IF hoursUntilRequired > 30 * 24 THEN 10 ELSE 0
  IN Min(unusual + until, TimingCap)

genericReasons ==
  { <<"e","m","e","r","g","e","n","c","y">>,
    <<"u","r","g","e","n","t">>,
    <<"o","p","e","r","a","t","i","o","n">>,
    <<"s","u","r","g","e","r","y">>,
    <<"a","c","c","i","d","e","n","t">>,
    <<"b","l","o","o","d"," ","l","o","s","s">>,
    <<"a","n","e","m","i","a">>,
    <<"t","r","a","n","s","f","u","s","i","o","n"," ","n","e","e","d","e","d">> }

analyzeMedicalReason(bloodRequest) ==
  LET reason == toLowerCase(bloodRequest.medicalReason)
      isGeneric == \E generic \in genericReasons :
                      includes(reason, generic) /\ Len(reason) < 50
      vague == IF isGeneric THEN 8 ELSE 0
      phrase == IF \/ includes(reason, <<"p","l","e","a","s","e"," ","h","e","l","p">>)
                   \/ includes(reason, <<"u","r","g","e","n","t"," ","n","e","e","d">>)
                THEN 5 ELSE 0
  IN Min(vague + phrase, MedicalReasonCap)

genericNames ==
  { <<"c","i","t","y"," ","h","o","s","p","i","t","a","l">>,
    <<"g","e","n","e","r","a","l"," ","h","o","s","p","i","t","a","l">>,
    <<"m","e","d","i","c","a","l"," ","c","e","n","t","e","r">>,
    <<"c","l","i","n","i","c">>,
    <<"h","e","a","l","t","h","c","a","r","e">>,
    <<"h","o","s","p","i","t","a","l">> }

\* a name counted as generic when it contains a generic name
analyzeHospitalInfo_NameContains(bloodRequest) ==
  IF bloodRequest.location.city = Undefined THEN Threw
  ELSE
    LET hospitalName    == toLowerCase(bloodRequest.hospital.name)
        hospitalAddress == toLowerCase(bloodRequest.hospital.address)
        requestCity     == toLowerCase(bloodRequest.location.city)
        generic  == IF \E g \in genericNames : includes(hospitalName, g) THEN 10 ELSE 0
        mismatch == IF ~includes(hospitalAddress, requestCity) THEN 8 ELSE 0
    IN Min(generic + mismatch, HospitalCap)

analyzeHospitalInfo(bloodRequest) ==
  IF bloodRequest.location.city = Undefined THEN Threw
  ELSE
    LET hospitalName    == toLowerCase(bloodRequest.hospital.name)
        hospitalAddress == toLowerCase(bloodRequest.hospital.address)
        requestCity     == toLowerCase(bloodRequest.location.city)
        generic  == IF \E g \in genericNames : hospitalName = g THEN 10 ELSE 0
        mismatch == IF ~includes(hospitalAddress, requestCity) THEN 8 ELSE 0
    IN Min(generic + mismatch, HospitalCap)

\* the tiers compared with > instead of >=
getRiskLevel_Strict(score) ==
  IF score > 70 THEN "high"
  ELSE IF score > 40 THEN "medium"
  ELSE IF score > 20 THEN "low"
  ELSE "minimal"

getRiskLevel(score) ==
  IF score >= 70 THEN "high"
  ELSE IF score >= 40 THEN "medium"
  ELSE IF score >= 20 THEN "low"
  ELSE "minimal"

\* The six sub-scores in the order analyzeRequest evaluates them.
SubScores(bloodRequest, requester, counts, t) ==
  << analyzeRequestFrequency(counts),
     analyzeLocationConsistency(bloodRequest, requester),
     analyzeContactPatterns(bloodRequest, requester),
     analyzeTimingPatterns(bloodRequest, t),
     analyzeMedicalReason(bloodRequest),
     analyzeHospitalInfo(bloodRequest) >>

FactorNames ==
  << "High request frequency", "Location inconsistency",
     "Suspicious contact patterns", "Unusual timing patterns",
     "Suspicious medical reason", "Hospital information concerns" >>

\* factors.push({factor, weight}) for each positive sub-score, in order
RECURSIVE PushFactors(_, _)
PushFactors(subs, i) ==
  IF i = 0 THEN <<>>
  ELSE IF subs[i] > 0
       THEN Append(PushFactors(subs, i - 1), [factor |-> FactorNames[i], weight |-> subs[i]])
       ELSE PushFactors(subs, i - 1)

\* totalScore += score, for each positive sub-score
RECURSIVE SumPositive(_, _)
SumPositive(s, i) ==
  IF i = 0 THEN 0
  ELSE (IF s[i] > 0 THEN s[i] ELSE 0) + SumPositive(s, i - 1)

\* The catch block's result
AnalysisFailed ==
  [score |-> 0, factors |-> <<>>, riskLevel |-> "low", error |-> TRUE]

\* the catch block returning what had been accumulated before the throw
analyzeRequest_PartialOnError(bloodRequest, requester, counts, t) ==
  LET subs == SubScores(bloodRequest, requester, counts, t)
      thrown == {i \in 1..6 : subs[i] = Threw}
      last == IF thrown = {} THEN 6
              ELSE (CHOOSE i \in thrown : \A j \in thrown : i <= j) - 1
      totalScore == SumPositive(subs, last)
  IN [score |-> Min(totalScore, ScoreCap),
      factors |-> PushFactors(subs, last),
      riskLevel |-> getRiskLevel(totalScore),
      error |-> thrown # {}]

analyzeRequest(bloodRequest, requester, counts, t) ==
  LET subs == SubScores(bloodRequest, requester, counts, t)
      totalScore == SumPositive(subs, 6)
  IN IF \E i \in 1..6 : subs[i] = Threw
     THEN AnalysisFailed
     ELSE [score |-> Min(totalScore, ScoreCap),
           factors |-> PushFactors(subs, 6),
           riskLevel |-> getRiskLevel(totalScore),
           error |-> FALSE]

-----------------------------------------------------------------------------
(* Blood request model methods *)

BloodGroups == {"A+", "A-", "B+", "B-", "AB+", "AB-", "O+", "O-"}

\* The table is an object literal, so a lookup also finds the members it
\* inherits from Object.prototype; they are truthy, and || [] does not
\* replace them.
ObjectPrototypeNames ==
  {"constructor", "hasOwnProperty", "isPrototypeOf", "propertyIsEnumerable",
   "toLocaleString", "toString", "valueOf", "__proto__"}

\* what such a lookup returns: a function or Object.prototype, not an array
\* of blood groups
InheritedMember == {"<member of Object.prototype>"}

\* compatibility[this.bloodGroup] || []
getCompatibleBloodGroups(bloodGroup) ==
  CASE bloodGroup = "A+"  -> {"A+", "A-", "O+", "O-"}
    [] bloodGroup = "A-"  -> {"A-", "O-"}
    [] bloodGroup = "B+"  -> {"B+", "B-", "O+", "O-"}
    [] bloodGroup = "B-"  -> {"B-", "O-"}
    [] bloodGroup = "AB+" -> {"A+", "A-", "B+", "B-", "AB+", "AB-", "O+", "O-"}
    [] bloodGroup = "AB-" -> {"A-", "B-", "AB-", "O-"}
    [] bloodGroup = "O+"  -> {"O+", "O-"}
    [] bloodGroup = "O-"  -> {"O-"}
    [] bloodGroup \in ObjectPrototypeNames -> InheritedMember
    [] OTHER -> {}

\* NaN: what the arithmetic of calculatePriority ends in once a value that is
\* not a number has been added to the score
NotANumber == 0 - 1000

\* urgencyScores[this.urgency] || 0; the lookup of a name inherited from
\* Object.prototype finds a function, which || 0 does not replace
urgencyScores(urgency) ==
  CASE urgency = "critical" -> 40
    [] urgency = "high" -> 30
    [] urgency = "medium" -> 20
    [] urgency = "low" -> 10
    [] urgency \in ObjectPrototypeNames -> NotANumber
    [] OTHER -> 0

\* the time tiers compared with < instead of <=
PriorityScore_TimeStrict(urgency, hoursUntilNeeded, unitsNeeded, fraudScore) ==
  50 + urgencyScores(urgency)
     + (IF hoursUntilNeeded < 6 THEN 20
        ELSE IF hoursUntilNeeded < 24 THEN 15
        ELSE IF hoursUntilNeeded < 72 THEN 10 ELSE 5)
     + Min(unitsNeeded * 2, 10)
     - (IF fraudScore > 70 THEN 30
        ELSE IF fraudScore > 50 THEN 20
        ELSE IF fraudScore > 30 THEN 10 ELSE 0)

PriorityScore(urgency, hoursUntilNeeded, unitsNeeded, fraudScore) ==
  IF urgencyScores(urgency) = NotANumber THEN NotANumber
  ELSE
  50 + urgencyScores(urgency)
     + (IF hoursUntilNeeded <= 6 THEN 20
        ELSE IF hoursUntilNeeded <= 24 THEN 15
        ELSE IF hoursUntilNeeded <= 72 THEN 10 ELSE 5)
     + Min(unitsNeeded * 2, 10)
     - (IF fraudScore > 70 THEN 30
        ELSE IF fraudScore > 50 THEN 20
        ELSE IF fraudScore > 30 THEN 10 ELSE 0)

\* this.priority = Math.max(1, Math.min(100, score)); Math.min and Math.max
\* of NaN are NaN
ClampPriority(score) ==
  IF score = NotANumber THEN NotANumber ELSE Max(1, Min(100, score))

\* the fraud penalty left out of the priority
calculatePriority_StaleScore(doc, t) ==
  ClampPriority(PriorityScore(doc.urgency, doc.requiredBy - t, doc.unitsNeeded, 0))

\* The priority calculatePriority assigns to document doc at time t.
calculatePriority(doc, t) ==
  ClampPriority(PriorityScore(doc.urgency, doc.requiredBy - t,
                              doc.unitsNeeded, doc.fraudCheck.score))

\* hoursToExpire[this.urgency] || 72
hoursToExpire(urgency) ==
  CASE urgency = "critical" -> 6
    [] urgency = "high" -> 24
    [] urgency = "medium" -> 72
    [] urgency = "low" -> 168
    [] OTHER -> 72

-----------------------------------------------------------------------------
(* User model methods *)

DonationIntervalDays == 56

\* lastDonation: null (the schema default), or <<t>> for a date
NoDonation == <<>>

\* the comparison written > instead of >=
canDonate_StrictlyMore(user, t) ==
  IF user.lastDonation = NoDonation
  THEN TRUE
  ELSE t - user.lastDonation[1] > DonationIntervalDays * 24

\* daysSinceLastDonation = (Date.now() - lastDonation) / one day, a real
\* number; it is >= 56 exactly when the hours elapsed are >= 56 * 24
canDonate(user, t) ==
  IF user.lastDonation = NoDonation
  THEN TRUE
  ELSE t - user.lastDonation[1] >= DonationIntervalDays * 24

MaxLoginAttempts == 5
LockHours == 2

\* lockUntil of an account that has none
NoLock == 0 - 1

\* the virtual isLocked of a loaded user at time t
isLocked(user, t) == user.lockUntil # NoLock /\ user.lockUntil > t

\* the lock set one failure late
incFailedAttempts_SixthFailure(this, stored, t) ==
  IF this.lockUntil # NoLock /\ this.lockUntil < t
  THEN [stored EXCEPT !.lockUntil = NoLock, !.loginAttempts = 1]
  ELSE IF this.loginAttempts + 1 > MaxLoginAttempts /\ ~isLocked(this, t)
  THEN [stored EXCEPT !.loginAttempts = @ + 1, !.lockUntil = t + LockHours]
  ELSE [stored EXCEPT !.loginAttempts = @ + 1]

\* this.incFailedAttempts() at time t: the conditions are evaluated on the
\* loaded document `this`, the update ($set / $unset / $inc) is applied to
\* the stored one
incFailedAttempts(this, stored, t) ==
  IF this.lockUntil # NoLock /\ this.lockUntil < t
  THEN [stored EXCEPT !.lockUntil = NoLock, !.loginAttempts = 1]
  ELSE IF this.loginAttempts + 1 >= MaxLoginAttempts /\ ~isLocked(this, t)
  THEN [stored EXCEPT !.loginAttempts = @ + 1, !.lockUntil = t + LockHours]
  ELSE [stored EXCEPT !.loginAttempts = @ + 1]

\* this.resetFailedAttempts(): both fields unset; loginAttempts then reads
\* as its default 0
resetFailedAttempts(stored) ==
  [stored EXCEPT !.loginAttempts = 0, !.lockUntil = NoLock]

-----------------------------------------------------------------------------
(* Users and request bodies the operations are exercised with *)

PhoneA == <<"9","8","7","6","5","4","3","2","1","0">>
PhoneB == <<"9","1","2","3","4","5","6","7","8","0">>
PhoneDoctor == <<"9","0","0","0","0","0","0","0","0","1">>
PhoneHospital == <<"0","2","0","2","6","1","2","3","4","5","6">>
\* the hospital's number written with separators: the same digits as PhoneHospital
PhoneHospitalSpaced == <<"0","2","0"," ","2","6","1","2","-","3","4","5","6">>
PhoneRepeating == <<"1","1","1","1","1","1","1","1","1","1">>

Pune == <<"P","u","n","e">>
PuneLower == <<"p","u","n","e">>
Goa == <<"G","o","a">>
StateMH == <<"M","H">>
StateGA == <<"G","A">>

Alice ==
  [id |-> "alice", role |-> "requester", phone |-> PhoneA,
   location |-> [coordinates |-> <<0>>, city |-> Pune, state |-> StateMH]]

Bob ==
  [id |-> "bob", role |-> "requester", phone |-> PhoneB,
   location |-> [coordinates |-> <<0>>, city |-> Pune, state |-> StateMH]]

Admin ==
  [id |-> "admin", role |-> "admin", phone |-> PhoneB,
   location |-> [coordinates |-> <<0>>, city |-> Pune, state |-> StateMH]]

Callers == {Alice, Bob, Admin}

\* The users collection as far as the donor query reads it.
Donors ==
  { [id |-> "d1", role |-> "donor", bloodGroup |-> "O-", isAvailable |-> TRUE,
     coordinates |-> <<5>>, email |-> TRUE],
    [id |-> "d2", role |-> "donor", bloodGroup |-> "A+", isAvailable |-> TRUE,
     coordinates |-> <<10>>, email |-> TRUE],
    [id |-> "d3", role |-> "donor", bloodGroup |-> "B+", isAvailable |-> TRUE,
     coordinates |-> <<3>>, email |-> TRUE],
    [id |-> "d4", role |-> "donor", bloodGroup |-> "A-", isAvailable |-> FALSE,
     coordinates |-> <<2>>, email |-> TRUE],
    [id |-> "d5", role |-> "donor", bloodGroup |-> "O-", isAvailable |-> TRUE,
     coordinates |-> <<115>>, email |-> TRUE],
    [id |-> "d6", role |-> "requester", bloodGroup |-> "O-", isAvailable |-> TRUE,
     coordinates |-> <<1>>, email |-> TRUE],
    [id |-> "d7", role |-> "donor", bloodGroup |-> "AB+", isAvailable |-> TRUE,
     coordinates |-> <<4>>, email |-> TRUE] }

Urgencies == {"low", "medium", "high", "critical"}
Statuses == {"active", "fulfilled", "expired", "cancelled"}

\* Request history as the three count queries report it.
CountsNone == [daily |-> 0, weekly |-> 0, monthly |-> 0, fails |-> FALSE]
CountsTwo == [daily |-> 2, weekly |-> 2, monthly |-> 2, fails |-> FALSE]
CountsThree == [daily |-> 3, weekly |-> 4, monthly |-> 16, fails |-> FALSE]
CountsFour == [daily |-> 4, weekly |-> 4, monthly |-> 4, fails |-> FALSE]
CountsMany == [daily |-> 5, weekly |-> 11, monthly |-> 21, fails |-> FALSE]
CountsError == [daily |-> 0, weekly |-> 0, monthly |-> 0, fails |-> TRUE]
CountsOptions == {CountsNone, CountsTwo, CountsThree, CountsFour, CountsMany, CountsError}

LocSame == [coordinates |-> <<0>>, city |-> PuneLower, state |-> StateMH]
LocNear == [coordinates |-> <<30>>, city |-> Pune, state |-> StateMH]
LocMid == [coordinates |-> <<60>>, city |-> Goa, state |-> StateMH]
LocFar == [coordinates |-> <<120>>, city |-> Goa, state |-> StateGA]
LocNoCity == [coordinates |-> <<120>>, city |-> Undefined, state |-> StateMH]
LocNoState == [coordinates |-> <<0>>, city |-> Pune, state |-> Undefined]
LocationOptions == {LocSame, LocNear, LocMid, LocFar, LocNoCity, LocNoState}

\* contact phone, doctor phone, hospital phone
PhonesDistinct == [primary |-> PhoneA, doctor |-> PhoneDoctor, hospital |-> PhoneHospital]
PhonesOther == [primary |-> PhoneB, doctor |-> PhoneDoctor, hospital |-> PhoneHospital]
PhonesShared == [primary |-> PhoneA, doctor |-> PhoneHospitalSpaced, hospital |-> PhoneHospital]
PhonesOtherShared == [primary |-> PhoneB, doctor |-> PhoneB, hospital |-> PhoneHospital]
PhonesRepeating == [primary |-> PhoneRepeating, doctor |-> PhoneDoctor, hospital |-> PhoneHospital]
PhoneOptions == {PhonesDistinct, PhonesOther, PhonesShared, PhonesOtherShared, PhonesRepeating}

ReasonSpecific == <<"t","h","a","l","a","s","s","e","m","i","a"," ","m","a","j","o","r">>
ReasonGeneric == <<"U","r","g","e","n","t"," ","o","p","e","r","a","t","i","o","n">>
ReasonGenericLong == <<"s","u","r","g","e","r","y"," ","f","o","r"," ","a"," ","f","r","a","c","t","u","r","e","d"," ","f","e","m","u","r"," ","a","f","t","e","r"," ","a"," ","f","a","l","l"," ","a","t"," ","h","o","m","e"," ","t","o","d","a","y">>
ReasonPlea == <<"p","l","e","a","s","e"," ","h","e","l","p"," ","u","s">>
ReasonUrgentNeed == <<"u","r","g","e","n","t"," ","n","e","e","d"," ","o","f"," ","b","l","o","o","d">>
ReasonOptions == {ReasonSpecific, ReasonGeneric, ReasonGenericLong, ReasonPlea, ReasonUrgentNeed}

HospitalNamed == [name |-> <<"R","u","b","y"," ","H","a","l","l">>, address |-> <<"S","a","s","s","o","o","n"," ","R","o","a","d",","," ","P","u","n","e">>]
HospitalElsewhere == [name |-> <<"R","u","b","y"," ","H","a","l","l">>, address |-> <<"M","G"," ","R","o","a","d",","," ","P","a","n","a","j","i">>]
HospitalGeneric == [name |-> <<"C","l","i","n","i","c">>, address |-> <<"S","a","s","s","o","o","n"," ","R","o","a","d",","," ","P","u","n","e">>]
HospitalGenericElsewhere == [name |-> <<"C","l","i","n","i","c">>, address |-> <<"M","G"," ","R","o","a","d",","," ","P","a","n","a","j","i">>]
HospitalOptions == {HospitalNamed, HospitalElsewhere, HospitalGeneric, HospitalGenericElsewhere}

\* hours from the time of the call to requiredBy
RequiredInOptions == {1, 5, 100, 721}

\* The validated body of POST /api/blood-requests built from one choice of
\* each part, received at time t.
RequestBody(urgency, unitsNeeded, loc, phones, reason, hosp, requiredIn, t) ==
  [bloodGroup |-> "A+",
   unitsNeeded |-> unitsNeeded,
   urgency |-> urgency,
   hospital |-> [name |-> hosp.name, address |-> hosp.address, phone |-> phones.hospital],
   location |-> loc,
   contactInfo |-> [primaryPhone |-> phones.primary],
   medicalReason |-> reason,
   doctorInfo |-> [phone |-> phones.doctor],
   requiredBy |-> t + requiredIn]

\* new BloodRequest({...req.body, requester}): the schema defaults are filled in
NewBloodRequest(body, requester) ==
  [requester |-> requester.id,
   bloodGroup |-> body.bloodGroup,
   unitsNeeded |-> body.unitsNeeded,
   urgency |-> body.urgency,
   hospital |-> body.hospital,
   location |-> body.location,
   contactInfo |-> body.contactInfo,
   medicalReason |-> body.medicalReason,
   doctorInfo |-> body.doctorInfo,
   requiredBy |-> body.requiredBy,
   status |-> "active",
   responses |-> <<>>,
   notifiedDonors |-> <<>>,
   fraudCheck |-> [score |-> 0, factors |-> <<>>],
   \* fraudCheck.isReviewed and fraudCheck.reviewedBy, kept beside the score
   \* and the factors
   fraudReview |-> [isReviewed |-> FALSE, reviewedBy |-> "none"],
   priority |-> 50,
   expiresAt |-> 0 - 1]

-----------------------------------------------------------------------------
(* State *)

StartHours == {5}

NoRequest == [requester |-> "none"]

AnalysisPending ==
  [score |-> 0 - 1, factors |-> <<>>, riskLevel |-> "none", error |-> FALSE]

\* error: what the 500 body (and the log) reports as the cause
NoResponse == [status |-> 0, fraudWarning |-> FALSE, error |-> "none"]

PostIdle ==
  [pc |-> "idle", doc |-> NoRequest, counts |-> CountsNone, analysis |-> AnalysisPending,
   queue |-> <<>>, notifications |-> <<>>, notifyFailed |-> FALSE,
   response |-> NoResponse, log |-> <<>>]

NoPut == [status |-> 0, keys |-> {}, caller |-> "none"]

NoOps == [puts |-> 0, scoreOp |-> 0, priorityOp |-> 0]

NoProbe == [kind |-> "none"]

\* The respond calls that may be in flight at once.
RespondCalls == {1, 2}

IdleCall == [pc |-> "idle", donor |-> "none", doc |-> NoRequest, status |-> 0,
             reason |-> "none"]

NoCalls == [calls |-> [i \in RespondCalls |-> IdleCall], notified |-> {}]

\* The login attempts that may be in flight at once.
LoginCalls == {1, 2}

IdleLogin == [pc |-> "idle", this |-> [loginAttempts |-> 0, lockUntil |-> NoLock]]

\* user: loginAttempts and lockUntil as stored; calls: the attempts between
\* their read of the user and their update; last: the last answer given;
\* failedChecks: the failed password checks evaluated since the counter was
\* last cleared or a lock was last set (not kept by the program)
NoAuth ==
  [user |-> [loginAttempts |-> 0, lockUntil |-> NoLock],
   calls |-> [a \in LoginCalls |-> IdleLogin],
   last |-> [route |-> "none", correct |-> FALSE, status |-> 0],
   failedChecks |-> 0]

NoLimiter == [maxRequests |-> 0, windowMs |-> 0]

\* The request bodies and histories POST is exercised with.
PostScenarios ==
  { [urgency |-> "low", unitsNeeded |-> 1, counts |-> CountsNone, loc |-> LocSame,
     phones |-> PhonesDistinct, reason |-> ReasonSpecific, hosp |-> HospitalNamed,
     requiredIn |-> 100],
    [urgency |-> "high", unitsNeeded |-> 2, counts |-> CountsFour, loc |-> LocNear,
     phones |-> PhonesOther, reason |-> ReasonSpecific, hosp |-> HospitalGenericElsewhere,
     requiredIn |-> 100],
    [urgency |-> "high", unitsNeeded |-> 2, counts |-> CountsThree, loc |-> LocNear,
     phones |-> PhonesShared, reason |-> ReasonSpecific, hosp |-> HospitalGenericElsewhere,
     requiredIn |-> 100],
    [urgency |-> "critical", unitsNeeded |-> 5, counts |-> CountsFour, loc |-> LocFar,
     phones |-> PhonesRepeating, reason |-> ReasonSpecific, hosp |-> HospitalGeneric,
     requiredIn |-> 5],
    [urgency |-> "medium", unitsNeeded |-> 2, counts |-> CountsFour, loc |-> LocFar,
     phones |-> PhonesOtherShared, reason |-> ReasonGeneric, hosp |-> HospitalNamed,
     requiredIn |-> 100],
    [urgency |-> "high", unitsNeeded |-> 2, counts |-> CountsFour, loc |-> LocFar,
     phones |-> PhonesRepeating, reason |-> ReasonPlea, hosp |-> HospitalGeneric,
     requiredIn |-> 100],
    [urgency |-> "critical", unitsNeeded |-> 10, counts |-> CountsMany, loc |-> LocFar,
     phones |-> PhonesRepeating, reason |-> ReasonUrgentNeed, hosp |-> HospitalGeneric,
     requiredIn |-> 1],
    [urgency |-> "high", unitsNeeded |-> 2, counts |-> CountsFour, loc |-> LocNoCity,
     phones |-> PhonesOther, reason |-> ReasonGeneric, hosp |-> HospitalNamed,
     requiredIn |-> 100],
    [urgency |-> "high", unitsNeeded |-> 2, counts |-> CountsError, loc |-> LocFar,
     phones |-> PhonesRepeating, reason |-> ReasonUrgentNeed, hosp |-> HospitalGeneric,
     requiredIn |-> 5] }

ScenarioBody(c, t) ==
  RequestBody(c.urgency, c.unitsNeeded, c.loc, c.phones, c.reason, c.hosp, c.requiredIn, t)

Init ==
  /\ now \in StartHours
  /\ db = NoRequest
  /\ post = PostIdle
  /\ put = NoPut
  /\ outbox = {}
  /\ ops = NoOps
  /\ respond = NoCalls
  /\ auth = NoAuth
  /\ limiter = NoLimiter
  /\ probe = NoProbe

\* An hour passes.
Tick ==
  /\ \E s \in StartHours : s <= now /\ now - s < MaxTicks
  /\ now' = now + 1
  /\ UNCHANGED <<db, post, put, outbox, ops, probe, respond, auth, limiter>>

-----------------------------------------------------------------------------
(* POST /api/blood-requests *)

\* the gate written score <= 80 instead of score < 80
NotifyThreshold_Inclusive == 80 + 1

NotifyThreshold == 80

\* the warning made to share the notification threshold
WarningThreshold_Unified == 50 + 30

WarningThreshold == 50
MaxDistanceKm == 20

\* the query limited to 100 donors
DonorLimit_Hundred == 50 + 50

DonorLimit == 50

\* What mongoose validation requires of a new document at save time t.
ValidNewRequest(doc, t) ==
  /\ doc.location.city # Undefined
  /\ doc.location.state # Undefined
  /\ doc.urgency \in Urgencies
  /\ doc.bloodGroup \in BloodGroups
  /\ doc.unitsNeeded >= 1 /\ doc.unitsNeeded <= 10
  /\ doc.requiredBy > t
  /\ doc.priority >= 1 /\ doc.priority <= 100
  /\ doc.fraudCheck.score >= 0 /\ doc.fraudCheck.score <= 100

\* new BloodRequest(...), then the fraud analysis with its result copied
\* into the document
PostAnalyze(c) ==
  /\ post.pc = "idle"
  /\ c \in PostScenarios
  /\ LET bloodRequest == NewBloodRequest(ScenarioBody(c, now), Alice)
         fraudScore == analyzeRequest(bloodRequest, Alice, c.counts, now)
     IN post' = [post EXCEPT
                   !.pc = "scored",
                   !.counts = c.counts,
                   !.analysis = fraudScore,
                   !.doc = [bloodRequest EXCEPT
                              !.fraudCheck = [score |-> fraudScore.score,
                                              factors |-> fraudScore.factors]],
                   !.log = Append(@, "analyze")]
  /\ UNCHANGED <<now, db, put, outbox, ops, probe, respond, auth, limiter>>

\* bloodRequest.calculatePriority()
PostPriority ==
  /\ post.pc = "scored"
  /\ post' = [post EXCEPT
                !.pc = "prioritized",
                !.doc = [@ EXCEPT !.priority = calculatePriority(post.doc, now)],
                !.log = Append(@, "priority")]
  /\ UNCHANGED <<now, db, put, outbox, ops, probe, respond, auth, limiter>>

\* The pre-save hook: expiresAt is set on a new document that has none.
PreSave(doc, t) ==
  IF doc.expiresAt < 0
  THEN [doc EXCEPT !.expiresAt = t + hoursToExpire(doc.urgency)]
  ELSE doc

\* the rejection of save() swallowed: the handler goes on as if stored
PostSave_SwallowError ==
  /\ post.pc = "prioritized"
  /\ \E stored \in BOOLEAN :
       IF stored /\ ValidNewRequest(post.doc, now)
       THEN /\ db' = PreSave(post.doc, now)
            /\ post' = [post EXCEPT !.pc = "saved",
                                    !.doc = PreSave(post.doc, now),
                                    !.log = Append(@, "save")]
            /\ ops' = [ops EXCEPT !.scoreOp = 1, !.priorityOp = 1]
       ELSE /\ post' = [post EXCEPT !.pc = "saved", !.log = Append(@, "save")]
            /\ UNCHANGED <<db, ops>>
  /\ UNCHANGED <<now, put, outbox, probe, respond, auth, limiter>>

\* await bloodRequest.save(): stored, or the save rejects (validation or the
\* database) and the handler's catch answers 500
PostSave ==
  /\ post.pc = "prioritized"
  /\ \E stored \in BOOLEAN :
       IF stored /\ ValidNewRequest(post.doc, now)
       THEN /\ db' = PreSave(post.doc, now)
            /\ post' = [post EXCEPT !.pc = "saved",
                                    !.doc = PreSave(post.doc, now),
                                    !.log = Append(@, "save")]
            /\ ops' = [ops EXCEPT !.scoreOp = 1, !.priorityOp = 1]
       ELSE /\ post' = [post EXCEPT !.pc = "done",
                                    !.response = [status |-> 500, fraudWarning |-> FALSE,
                                                  error |-> "save"],
                                    !.log = Append(@, "respond")]
            /\ UNCHANGED <<db, ops>>
  /\ UNCHANGED <<now, put, outbox, probe, respond, auth, limiter>>

\* User.find({role: 'donor', bloodGroup: {$in: compatibleGroups},
\*            isAvailable: true, location: {$near ..., $maxDistance: 20000}})
MatchingDonorsAmong(users, bloodRequest) ==
  { d \in users :
      /\ d.role = "donor"
      /\ d.bloodGroup \in getCompatibleBloodGroups(bloodRequest.bloodGroup)
      /\ d.isAvailable
      /\ calculateDistance(d.coordinates, bloodRequest.location.coordinates) >= 0
      /\ calculateDistance(d.coordinates, bloodRequest.location.coordinates) <= MaxDistanceKm }

MatchingDonors(bloodRequest) == MatchingDonorsAmong(Donors, bloodRequest)

\* $near returns the nearest first
RECURSIVE NearestFirst(_, _)
NearestFirst(S, origin) ==
  IF S = {} THEN <<>>
  ELSE LET d == CHOOSE x \in S : \A y \in S :
                   calculateDistance(x.coordinates, origin)
                     <= calculateDistance(y.coordinates, origin)
       IN <<d>> \o NearestFirst(S \ {d}, origin)

\* ... .limit(50)
NearbyDonorsAmong(users, bloodRequest) ==
  LET all == NearestFirst(MatchingDonorsAmong(users, bloodRequest),
                          bloodRequest.location.coordinates)
  IN SubSeq(all, 1, Min(Len(all), DonorLimit))

NearbyDonors(bloodRequest) == NearbyDonorsAmong(Donors, bloodRequest)

\* The loop over nearbyDonors run to its end, the sends to the donors in
\* `throwing` throwing: the notification records pushed.
RECURSIVE Notifications(_, _)
Notifications(queue, throwing) ==
  IF queue = <<>> THEN <<>>
  ELSE LET donor == Head(queue)
       IN (IF donor.email /\ donor.id \notin throwing
           THEN <<[donor |-> donor.id, method |-> "email"]>>
           ELSE <<>>) \o Notifications(Tail(queue), throwing)

\* notifyNearbyDonors(bloodRequest) over the given users collection: the
\* donors contacted and the value assigned to bloodRequest.notifiedDonors
notifyNearbyDonors(users, bloodRequest, throwing) ==
  LET nearbyDonors == NearbyDonorsAmong(users, bloodRequest)
  IN [contacted |-> [k \in DOMAIN nearbyDonors |-> nearbyDonors[k].id],
      notifiedDonors |-> Notifications(nearbyDonors, throwing)]

\* the fan-out started without await: the handler goes on to the response
\* while the donors are still queued
PostNotifyQuery_FireAndForget ==
  /\ post.pc = "saved"
  /\ post.analysis.score < NotifyThreshold
  /\ post' = [post EXCEPT !.pc = "populate",
                          !.queue = NearbyDonors(post.doc),
                          !.log = Append(@, "notify")]
  /\ UNCHANGED <<now, db, put, outbox, ops, probe, respond, auth, limiter>>

\* if (fraudScore.score < 80): notifyNearbyDonors starts with the donor
\* query, which may reject; the rejection is rethrown to the handler, which
\* logs it and goes on
PostNotifyQuery ==
  /\ post.pc = "saved"
  /\ post.analysis.score < NotifyThreshold
  /\ \E found \in BOOLEAN :
       post' = IF found
               THEN [post EXCEPT !.pc = "notifying",
                                 !.queue = NearbyDonors(post.doc),
                                 !.log = Append(@, "notify")]
               ELSE [post EXCEPT !.pc = "populate",
                                 !.notifyFailed = TRUE,
                                 !.log = Append(@, "notify")]
  /\ UNCHANGED <<now, db, put, outbox, ops, probe, respond, auth, limiter>>

\* the fraud score is too high: no fan-out
PostSkipNotify ==
  /\ post.pc = "saved"
  /\ ~(post.analysis.score < NotifyThreshold)
  /\ post' = [post EXCEPT !.pc = "populate"]
  /\ UNCHANGED <<now, db, put, outbox, ops, probe, respond, auth, limiter>>

\* the loop without its try/catch: a failed send leaves the loop and
\* reaches the handler's outer catch
PostNotifyDonor_AbortBatch ==
  /\ post.pc = "notifying"
  /\ post.queue # <<>>
  /\ LET donor == Head(post.queue)
     IN \E sent \in BOOLEAN :
          IF sent /\ donor.email
          THEN /\ outbox' = outbox \cup {donor.id}
               /\ post' = [post EXCEPT
                             !.queue = Tail(@),
                             !.notifications =
                                Append(@, [donor |-> donor.id, method |-> "email"])]
          ELSE /\ outbox' = outbox
               /\ post' = [post EXCEPT
                             !.pc = "done",
                             !.notifyFailed = TRUE,
                             !.response = [status |-> 500, fraudWarning |-> FALSE,
                                           error |-> "notification"],
                             !.log = Append(@, "respond")]
  /\ UNCHANGED <<now, db, put, ops, probe, respond, auth, limiter>>

\* One turn of the loop over nearbyDonors: the e-mail is sent and recorded,
\* or the send throws and the donor is skipped.
PostNotifyDonor ==
  /\ post.pc = "notifying"
  /\ post.queue # <<>>
  /\ LET donor == Head(post.queue)
     IN \E sent \in BOOLEAN :
          IF sent /\ donor.email
          THEN /\ outbox' = outbox \cup {donor.id}
               /\ post' = [post EXCEPT
                             !.queue = Tail(@),
                             !.notifications =
                                Append(@, [donor |-> donor.id, method |-> "email"])]
          ELSE /\ outbox' = outbox
               /\ post' = [post EXCEPT !.queue = Tail(@)]
  /\ UNCHANGED <<now, db, put, ops, probe, respond, auth, limiter>>

\* bloodRequest.notifiedDonors = notifications; await bloodRequest.save():
\* only the modified path is written
PostNotifySave ==
  /\ post.pc = "notifying"
  /\ post.queue = <<>>
  /\ \E stored \in BOOLEAN :
       IF stored
       THEN /\ db' = [db EXCEPT !.notifiedDonors = post.notifications]
            /\ post' = [post EXCEPT
                          !.pc = "populate",
                          !.doc = [@ EXCEPT !.notifiedDonors = post.notifications]]
       ELSE /\ db' = db
            /\ post' = [post EXCEPT
                          !.pc = "populate",
                          !.notifyFailed = TRUE,
                          !.doc = [@ EXCEPT !.notifiedDonors = post.notifications]]
  /\ UNCHANGED <<now, put, outbox, ops, probe, respond, auth, limiter>>

\* populate('requester'), then res.status(201); a rejected populate is
\* answered 500 by the handler's catch
PostRespond ==
  /\ post.pc = "populate"
  /\ \E populated \in BOOLEAN :
       post' = [post EXCEPT
                  !.pc = "done",
                  !.response =
                     IF populated
                     THEN [status |-> 201,
                           fraudWarning |-> post.analysis.score > WarningThreshold,
                           error |-> "none"]
                     ELSE [status |-> 500, fraudWarning |-> FALSE, error |-> "populate"],
                  !.log = Append(@, "respond")]
  /\ UNCHANGED <<now, db, put, outbox, ops, probe, respond, auth, limiter>>

-----------------------------------------------------------------------------
(* PUT /api/blood-requests/:id *)

\* unitsNeeded added to the fields an update may set
allowedUpdates_WithUnits == {"urgency", "contactInfo", "requiredBy", "status", "unitsNeeded"}

allowedUpdates == {"urgency", "contactInfo", "requiredBy", "status"}

\* The request bodies PUT is exercised with; a body is a record of the keys
\* it contains.
PutBodies ==
  { <<>>,
    [urgency |-> "critical"],
    [urgency |-> ""],
    [urgency |-> "bogus"],
    [requiredBy |-> 6],
    [status |-> "cancelled"],
    [contactInfo |-> [primaryPhone |-> PhoneB]],
    [urgency |-> "medium", requiredBy |-> 200, unitsNeeded |-> 1, priority |-> 100,
     fraudCheck |-> [score |-> 0, factors |-> <<>>], requester |-> "bob"] }

\* updates[key] = req.body[key] for the allowed keys of the body
Updates(body) == [k \in (DOMAIN body) \cap allowedUpdates |-> body[k]]

\* Object.assign(bloodRequest, updates)
Assign(doc, updates) ==
  [k \in DOMAIN doc |-> IF k \in DOMAIN updates THEN updates[k] ELSE doc[k]]

\* if (updates.urgency): present and not the empty string
HasUrgency(updates) == "urgency" \in DOMAIN updates /\ updates["urgency"] # ""

\* the priority recomputed on every update, whatever its keys
ApplyUpdates_AlwaysRecompute(doc, body, t) ==
  LET assigned == Assign(doc, Updates(body))
  IN [assigned EXCEPT !["priority"] = calculatePriority(assigned, t)]

\* Lines 434-448: the document as the handler hands it to save()
ApplyUpdates(doc, body, t) ==
  LET assigned == Assign(doc, Updates(body))
  IN IF HasUrgency(Updates(body))
     THEN [assigned EXCEPT !["priority"] = calculatePriority(assigned, t)]
     ELSE assigned

Modified(doc, updates, k) == k \in DOMAIN updates /\ updates[k] # doc[k]

\* What mongoose validation requires of the modified paths at save time t.
ValidUpdate(doc, updates, t) ==
  /\ Modified(doc, updates, "urgency") => updates["urgency"] \in Urgencies
  /\ Modified(doc, updates, "status") => updates["status"] \in Statuses
  /\ Modified(doc, updates, "requiredBy") => updates["requiredBy"] > t

UpdateRequest(caller, body) ==
  /\ ops.puts < MaxPuts
  /\ caller \in Callers
  /\ body \in PutBodies
  /\ IF db = NoRequest
     THEN /\ put' = [status |-> 404, keys |-> DOMAIN body, caller |-> caller.id]
          /\ ops' = [ops EXCEPT !.puts = @ + 1]
          /\ db' = db
     ELSE IF db.requester # caller.id /\ caller.role # "admin"
     THEN /\ put' = [status |-> 403, keys |-> DOMAIN body, caller |-> caller.id]
          /\ ops' = [ops EXCEPT !.puts = @ + 1]
          /\ db' = db
     ELSE \E stored \in BOOLEAN :
            IF stored /\ ValidUpdate(db, Updates(body), now)
            THEN /\ db' = ApplyUpdates(db, body, now)
                 /\ put' = [status |-> 200, keys |-> DOMAIN body, caller |-> caller.id]
                 /\ ops' = [ops EXCEPT
                              !.puts = @ + 1,
                              !.priorityOp = IF HasUrgency(Updates(body))
                                             THEN ops.puts + 2 ELSE @]
            ELSE /\ db' = db
                 /\ put' = [status |-> 500, keys |-> DOMAIN body, caller |-> caller.id]
                 /\ ops' = [ops EXCEPT !.puts = @ + 1]
  /\ UNCHANGED <<now, post, outbox, probe, respond, auth, limiter>>

-----------------------------------------------------------------------------

Next ==
  \/ Tick
  \/ \E c \in PostScenarios : PostAnalyze(c)
  \/ PostPriority
  \/ PostSave
  \/ PostNotifyQuery
  \/ PostSkipNotify
  \/ PostNotifyDonor
  \/ PostNotifySave
  \/ PostRespond
  \/ \E caller \in Callers, body \in PutBodies : UpdateRequest(caller, body)

Spec == Init /\ [][Next]_vars

-----------------------------------------------------------------------------
(* The scoring functions called directly, over all combinations of inputs *)

\* A requester whose stored city is missing
AliceNoCity ==
  [id |-> "alice", role |-> "requester", phone |-> PhoneA,
   location |-> [coordinates |-> <<0>>, city |-> Undefined, state |-> StateMH]]

\* clock values of the call: before 06:00, and 23:00
ProbeTimes == {5, 23}

AnalyzeInputs ==
  [requester : {Alice}, counts : CountsOptions, loc : LocationOptions,
   phones : PhoneOptions, reason : ReasonOptions, hosp : HospitalOptions,
   requiredIn : RequiredInOptions, t : ProbeTimes]
  \cup
  [requester : {AliceNoCity}, counts : CountsOptions, loc : LocationOptions,
   phones : {PhonesOtherShared}, reason : {ReasonUrgentNeed}, hosp : HospitalOptions,
   requiredIn : {1}, t : ProbeTimes]

\* hours from the call to requiredBy, negative once it has passed
ProbeHours == {0 - 3, 5, 6, 7, 24, 25, 72, 73}

PriorityInputs ==
  [urgency : Urgencies \cup {"bogus", "constructor"}, hoursUntilNeeded : ProbeHours,
   unitsNeeded : 0..MaxProbeUnits, fraudScore : 0..ScoreCap]

ProbeRequest(in) ==
  NewBloodRequest(
    RequestBody("high", 2, in.loc, in.phones, in.reason, in.hosp, in.requiredIn, in.t),
    in.requester)

InitScoring ==
  /\ now = 0
  /\ db = NoRequest
  /\ post = PostIdle
  /\ put = NoPut
  /\ outbox = {}
  /\ ops = NoOps
  /\ respond = NoCalls
  /\ auth = NoAuth
  /\ limiter = NoLimiter
  /\ \/ \E in \in AnalyzeInputs :
          probe = [kind |-> "analyze", in |-> in, done |-> FALSE,
                   subs |-> <<>>, result |-> AnalysisPending]
     \/ \E in \in PriorityInputs :
          probe = [kind |-> "priority", in |-> in, done |-> FALSE, result |-> 0]

\* fraudDetection.analyzeRequest(bloodRequest, requester)
ProbeAnalyze ==
  /\ probe.kind = "analyze"
  /\ ~probe.done
  /\ probe' = [probe EXCEPT
                 !.done = TRUE,
                 !.subs = SubScores(ProbeRequest(probe.in), probe.in.requester,
                                    probe.in.counts, probe.in.t),
                 !.result = analyzeRequest(ProbeRequest(probe.in), probe.in.requester,
                                           probe.in.counts, probe.in.t)]
  /\ UNCHANGED <<now, db, post, put, outbox, ops, respond, auth, limiter>>

\* bloodRequest.calculatePriority() on a document with the given fields
ProbePriority ==
  /\ probe.kind = "priority"
  /\ ~probe.done
  /\ probe' = [probe EXCEPT
                 !.done = TRUE,
                 !.result = calculatePriority(
                               [urgency |-> probe.in.urgency,
                                requiredBy |-> probe.in.hoursUntilNeeded,
                                unitsNeeded |-> probe.in.unitsNeeded,
                                fraudCheck |-> [score |-> probe.in.fraudScore]], 0)]
  /\ UNCHANGED <<now, db, post, put, outbox, ops, respond, auth, limiter>>

NextScoring ==
  \/ ProbeAnalyze
  \/ ProbePriority

SpecScoring == InitScoring /\ [][NextScoring]_vars

-----------------------------------------------------------------------------
(* Properties of request creation and update *)

\* the handler has taken the named step
InLog(step) == \E i \in 1..Len(post.log) : post.log[i] = step

\* notifyNearbyDonors has been invoked for the request
FanOutInvoked == InLog("notify")

\* C1: donor notification fan-out is invoked only for a request whose fraud
\* score is strictly below 80; a request scored 80 or more is stored, and
\* neither is fan-out invoked for it nor is any donor e-mailed or recorded.
C1_FanOutOnlyBelow80 ==
  /\ (FanOutInvoked \/ post.pc = "notifying" \/ outbox # {})
       => (db # NoRequest /\ db.fraudCheck.score < 80)
  /\ (post.pc \in {"populate", "done"} /\ InLog("save") /\ post.analysis.score >= 80)
       => /\ db # NoRequest
          /\ db.fraudCheck.score = post.analysis.score
          /\ ~FanOutInvoked
          /\ outbox = {}
          /\ db.notifiedDonors = <<>>

\* A request scored exactly 80 was stored and answered 201 with no fan-out.
C1_Witness ==
  /\ post.pc = "done"
  /\ post.response.status = 201
  /\ db # NoRequest
  /\ db.fraudCheck.score = 80
  /\ ~FanOutInvoked
  /\ outbox = {}

\* C2: the 201 response carries a fraud warning exactly when the score is
\* strictly greater than 50, and a request scored 51..79 is both warned
\* about and fanned out to donors.
C2_WarningAbove50 ==
  post.response.status = 201 =>
    /\ db # NoRequest
    /\ post.response.fraudWarning <=> (db.fraudCheck.score > 50)
    /\ (db.fraudCheck.score >= 51 /\ db.fraudCheck.score <= 79)
         => (post.response.fraudWarning /\ FanOutInvoked)

\* A request scored 51 was answered 201 with the warning after donors had
\* been e-mailed.
C2_Witness ==
  /\ post.response.status = 201
  /\ db # NoRequest
  /\ db.fraudCheck.score = 51
  /\ post.response.fraudWarning
  /\ outbox # {}

\* C3 as stated: while notifyNearbyDonors is still running the handler can
\* already send its response.
C3_ResponseNotBlocked ==
  (post.pc = "notifying" /\ post.response = NoResponse) => ENABLED PostRespond

\* C3: the handler awaits the fan-out: no response exists while
\* notifyNearbyDonors is running, and a 201 for a request scored below 80 is
\* sent only after notifyNearbyDonors was invoked and has gone through its
\* whole batch or thrown.
C3_ResponseAfterFanOut ==
  /\ post.pc = "notifying" => post.response = NoResponse
  /\ (post.response.status = 201 /\ post.analysis.score < 80)
       => (FanOutInvoked /\ post.queue = <<>>)

\* A 201 was sent after the whole batch had been e-mailed.
C3_Witness ==
  /\ post.pc = "done"
  /\ post.response.status = 201
  /\ FanOutInvoked
  /\ outbox = {"d1", "d2"}
  /\ ~post.notifyFailed

\* C4 as stated: the priority a request holds was computed by the operation
\* that computed its fraud score.
C4_SameOperation == db # NoRequest => ops.priorityOp = ops.scoreOp

\* C4: at creation the priority is computed from the fraud score the same
\* handler has just obtained; an update that recomputes the priority reads the
\* score stored at creation, which the update leaves as it was.
C4_PriorityReadsStoredScore ==
  [][/\ (post.pc = "scored" /\ post'.pc = "prioritized")
          => post'.doc.priority =
               ClampPriority(PriorityScore(post.doc.urgency, post.doc.requiredBy - now,
                                           post.doc.unitsNeeded, post.analysis.score))
     /\ (ops'.priorityOp # ops.priorityOp /\ ops'.priorityOp > 1)
          => /\ ops'.scoreOp = 1
             /\ db'.fraudCheck = db.fraudCheck
             /\ db'.priority =
                  ClampPriority(PriorityScore(db'.urgency, db'.requiredBy - now,
                                              db'.unitsNeeded, db.fraudCheck.score))]_vars

\* An update recomputed the priority of a request whose stored score carries
\* a fraud penalty.
C4_Witness ==
  /\ put.status = 200
  /\ ops.priorityOp = 2
  /\ ops.scoreOp = 1
  /\ db # NoRequest
  /\ db.fraudCheck.score > 30
  /\ db.priority = calculatePriority(db, now)

\* C5: an update never changes fraudCheck.score; a stored update whose body
\* has a non-empty urgency recomputes the priority, and an update whose body
\* has no urgency leaves the priority as it was.
C5_UpdateFrame ==
  [][(ops'.puts = ops.puts + 1 /\ db # NoRequest)
       => /\ db'.fraudCheck = db.fraudCheck
          /\ (put'.status = 200 /\ "urgency" \in put'.keys)
               => db'.priority = calculatePriority(db', now)
          /\ "urgency" \notin put'.keys => db'.priority = db.priority]_vars

\* An update of requiredBy alone was stored and left a priority that a
\* recomputation would have changed.
C5_Witness ==
  /\ put.status = 200
  /\ put.keys = {"requiredBy"}
  /\ db # NoRequest
  /\ db.priority # calculatePriority(db, now)

\* C6: when a sub-check or a history count throws, analyzeRequest resolves to
\* score 0, no factors and risk level "low", whatever sub-scores preceded the
\* throw; the handler stores that result in the document and goes on to the
\* priority and the save, and the analysis is never the cause of a 500.
C6_FailSoft ==
  [][/\ (post.pc = "idle" /\ post'.pc = "scored"
           /\ \E i \in 1..6 : SubScores(post'.doc, Alice, post'.counts, now)[i] = Threw)
          => /\ post'.analysis.error
             /\ post'.analysis.score = 0
             /\ post'.analysis.factors = <<>>
             /\ post'.analysis.riskLevel = "low"
     /\ post'.analysis.error
          => /\ post'.doc.fraudCheck = [score |-> 0, factors |-> <<>>]
             /\ post.pc = "scored" => post'.pc \in {"scored", "prioritized"}
             /\ post.pc = "prioritized" => post'.log[Len(post'.log)] \in {"priority", "save", "respond"}
             /\ post'.response.status = 500 => post'.response.error \in {"save", "populate"}
             /\ post'.response.status = 201 => ~post'.response.fraudWarning
             /\ db' # NoRequest => db'.fraudCheck = [score |-> 0, factors |-> <<>>]]_vars

\* A request whose history counts could not be read was stored with score 0
\* and answered 201.
C6_Witness ==
  /\ post.pc = "done"
  /\ post.counts.fails
  /\ post.analysis.error
  /\ post.response.status = 201
  /\ db # NoRequest
  /\ db.fraudCheck.score = 0

\* C7: each turn of the notification loop, whether the send succeeded or
\* threw, moves on to the next donor without a response being sent; and no
\* failure inside notifyNearbyDonors fails the request: a 500 is caused only
\* by the request's own save or by populate, and a request whose fan-out
\* failed stays stored and is answered 201 unless populate rejects.
C7_NotificationFailuresSwallowed ==
  [][/\ (post.pc = "notifying" /\ post.queue # <<>> /\ post' # post)
          => /\ post'.pc = "notifying"
             /\ post'.queue = Tail(post.queue)
             /\ post'.response = NoResponse
             /\ db' = db
     /\ post'.response.status = 500 => post'.response.error \in {"save", "populate"}
     /\ post'.notifyFailed => db' # NoRequest
     /\ (post'.pc = "done" /\ FanOutInvoked' /\ post'.response.error # "populate")
          => post'.response.status = 201]_vars

\* The send to the first donor failed, the second donor was still e-mailed,
\* saving the notification records failed, and the answer was 201.
C7_Witness ==
  /\ post.pc = "done"
  /\ post.response.status = 201
  /\ post.notifyFailed
  /\ outbox = {"d2"}
  /\ db # NoRequest
  /\ db.notifiedDonors = <<>>

\* the steps of the handler in the order the code takes them
PostStepOrder == <<"analyze", "priority", "save", "notify", "respond">>

\* s is t with some elements left out, the order kept
RECURSIVE IsSubsequence(_, _)
IsSubsequence(s, t) ==
  IF s = <<>> THEN TRUE
  ELSE IF t = <<>> THEN FALSE
  ELSE IF Head(s) = Head(t) THEN IsSubsequence(Tail(s), Tail(t))
  ELSE IsSubsequence(s, Tail(t))

\* C8: the handler's steps occur in the order fraud scoring, priority, save,
\* notification; a donor is queued or e-mailed only for a request that is
\* stored, and when the save fails no notification is attempted or sent and
\* the response is a 500.
C8_PersistBeforeNotify ==
  /\ IsSubsequence(post.log, PostStepOrder)
  /\ InLog("priority") => InLog("analyze")
  /\ InLog("save") => InLog("priority")
  /\ InLog("notify") => InLog("save")
  /\ (post.pc = "notifying" \/ post.queue # <<>> \/ outbox # {} \/ FanOutInvoked)
       => (db # NoRequest /\ InLog("save"))
  /\ (post.pc = "done" /\ db = NoRequest)
       => /\ post.response.status = 500
          /\ post.response.error = "save"
          /\ ~FanOutInvoked
          /\ outbox = {}

\* The save of a valid request failed: nothing stored, nobody notified, 500.
C8_Witness ==
  /\ post.pc = "done"
  /\ db = NoRequest
  /\ ValidNewRequest(post.doc, now)
  /\ post.analysis.score < 80
  /\ post.response.status = 500
  /\ outbox = {}
  /\ ~FanOutInvoked

-----------------------------------------------------------------------------
(* Properties of the scoring functions *)

\* C9: whatever the inputs, the score analyzeRequest returns is within
\* 0..100, and whatever the urgency, the hours until requiredBy (negative
\* included), the units and the fraud score, the priority calculatePriority
\* sets is within 1..100.
C9_ScoreAndPriorityRanges ==
  (probe.kind # "none" /\ probe.done)
    => /\ probe.kind = "analyze"
            => (probe.result.score >= 0 /\ probe.result.score <= 100)
       /\ probe.kind = "priority"
            => (probe.result >= 1 /\ probe.result <= 100)

\* the cap of each sub-check, in the order of SubScores
SubScoreCaps ==
  <<FrequencyCap, LocationCap, ContactCap, TimingCap, MedicalReasonCap, HospitalCap>>

RECURSIVE SumWeights(_)
SumWeights(factors) ==
  IF factors = <<>> THEN 0 ELSE Head(factors).weight + SumWeights(Tail(factors))

\* C10: when no sub-check throws, each sub-score is within 0 and its cap, the
\* score is min(100, sum of the six sub-scores), factors holds exactly one
\* entry per positive sub-score, in the order of the checks and with the
\* sub-score as its weight, and the weights sum to the score.
C10_ScoreIsCappedSum ==
  (probe.kind = "analyze" /\ probe.done /\ \A i \in 1..6 : probe.subs[i] # Threw)
    => LET subs == probe.subs
           factors == probe.result.factors
           positive == {i \in 1..6 : subs[i] > 0}
       IN /\ \A i \in 1..6 : subs[i] >= 0 /\ subs[i] <= SubScoreCaps[i]
          /\ probe.result.score
               = Min(100, subs[1] + subs[2] + subs[3] + subs[4] + subs[5] + subs[6])
          /\ Len(factors) = Cardinality(positive)
          /\ \A i \in positive :
               \E k \in 1..Len(factors) :
                 /\ factors[k] = [factor |-> FactorNames[i], weight |-> subs[i]]
                 /\ k = Cardinality({j \in positive : j <= i})
          /\ SumWeights(factors) = probe.result.score

\* Every sub-check at its cap: score 100 with six factors.
C10_Witness ==
  /\ probe.kind = "analyze"
  /\ probe.done
  /\ probe.result.score = 100
  /\ Len(probe.result.factors) = 6
  /\ SumWeights(probe.result.factors) = 100

\* the inputs of the priority probe as the document calculatePriority reads
PriorityDoc(in) ==
  [urgency |-> in.urgency, requiredBy |-> in.hoursUntilNeeded,
   unitsNeeded |-> in.unitsNeeded, fraudCheck |-> [score |-> in.fraudScore]]

\* C11: for a valid urgency the priority is
\* clamp(50 + urgency points + time points + min(2 * units, 10) - fraud
\* penalty, 1, 100), with urgency points 40/30/20/10, time points 20 up to 6
\* hours, 15 up to 24, 10 up to 72, else 5, and penalty 30 above score 70,
\* 20 above 50, 10 above 30, else 0; critical, 5 hours, 2 units, score 0
\* gives 100.
C11_PriorityFormula ==
  (probe.kind = "priority" /\ probe.done /\ probe.in.urgency \in Urgencies)
    => LET in == probe.in
           urgencyPoints == IF in.urgency = "critical" THEN 40
                            ELSE IF in.urgency = "high" THEN 30
                            ELSE IF in.urgency = "medium" THEN 20 ELSE 10
           timePoints == IF in.hoursUntilNeeded <= 6 THEN 20
                         ELSE IF in.hoursUntilNeeded <= 24 THEN 15
                         ELSE IF in.hoursUntilNeeded <= 72 THEN 10 ELSE 5
           unitPoints == IF 2 * in.unitsNeeded < 10 THEN 2 * in.unitsNeeded ELSE 10
           fraudPenalty == IF in.fraudScore > 70 THEN 30
                           ELSE IF in.fraudScore > 50 THEN 20
                           ELSE IF in.fraudScore > 30 THEN 10 ELSE 0
           raw == 50 + urgencyPoints + timePoints + unitPoints - fraudPenalty
       IN /\ probe.result = (IF raw > 100 THEN 100 ELSE IF raw < 1 THEN 1 ELSE raw)
          /\ (in.urgency = "critical" /\ in.hoursUntilNeeded = 5
                 /\ in.unitsNeeded = 2 /\ in.fraudScore = 0)
               => (raw = 114 /\ probe.result = 100)

\* The scenario critical, 5 hours, 2 units, fraud score 0 was computed.
C11_Witness ==
  /\ probe.kind = "priority"
  /\ probe.done
  /\ probe.in = [urgency |-> "critical", hoursUntilNeeded |-> 5,
                  unitsNeeded |-> 2, fraudScore |-> 0]
  /\ probe.result = 100

\* C12: with urgency, hours and units fixed the priority never rises when
\* the fraud score rises by one, and it falls strictly when the score passes
\* from 30 to 31, 50 to 51 or 70 to 71, unless it is 100 (or 1) on both sides.
C12_PriorityMonotoneInFraudScore ==
  (probe.kind = "priority" /\ probe.done /\ probe.in.fraudScore > 0)
    => LET below == calculatePriority(
                      PriorityDoc([probe.in EXCEPT !.fraudScore = @ - 1]), 0)
       IN /\ probe.result <= below
          /\ probe.in.fraudScore \in {31, 51, 71}
               => \/ probe.result < below
                  \/ probe.result = below /\ below \in {1, 100}

-----------------------------------------------------------------------------
(* The sub-checks and the compatibility lookup called directly *)

\* the largest 24-hour request count tried
MaxDailyCount == 5

\* counts on both sides of every tier of every window
FrequencyInputs ==
  [daily : 0..MaxDailyCount, weekly : {0, 5, 6, 7, 8, 10, 11},
   monthly : {0, 15, 16, 20, 21}, fails : {FALSE}]

\* two days of clock hours; required-by 1, 2, 3 hours and 30 days (720 hours)
\* and one hour more away
TimingInputs == [t : 0..47, requiredIn : {1, 2, 3, 720, 721}]

StateMHLower == <<"m","h">>

\* request locations around every distance tier from Alice's position 0,
\* with the city and state the same, differing in case only, or different
LocationInputs ==
  [coordinates : {<<0>>, <<25>>, <<26>>, <<50>>, <<51>>, <<100>>, <<101>>, <<120>>},
   city : {Pune, PuneLower, Goa}, state : {StateMH, StateMHLower, StateGA}]

\* Alice's number written with a separator
PhoneASpaced == <<"9","8","7","6","5","-","4","3","2","1","0">>
PhoneAscending == <<"1","2","3","4","5","6","7","8","9","0">>
PhoneFromZero == <<"0","1","2","3","4","5","6","7","8","9">>
PhoneSixOnes == <<"1","1","1","1","1","1">>
PhoneSevenOnes == <<"1","1","1","1","1","1","1">>
\* ten digits, all but the last the same
PhoneNearlyRepeating == <<"1","1","1","1","1","1","1","1","1","2">>

ContactInputs ==
  [primary : {PhoneA, PhoneASpaced, PhoneB, PhoneRepeating, PhoneAscending,
              PhoneFromZero, PhoneSixOnes, PhoneSevenOnes, PhoneNearlyRepeating},
   doctor : {PhoneDoctor, PhoneHospitalSpaced, PhoneA, PhoneRepeating},
   hospital : {PhoneHospital, PhoneA}]

NameRubyHall == <<"R","u","b","y"," ","H","a","l","l">>
NameClinic == <<"C","l","i","n","i","c">>
NameHospital == <<"H","o","s","p","i","t","a","l">>
NameCityHospital == <<"C","i","t","y"," ","H","o","s","p","i","t","a","l">>
\* contains a generic name without being one
NameCityHospitalPune == <<"C","i","t","y"," ","H","o","s","p","i","t","a","l"," ","P","u","n","e">>
NameHealthcareUpper == <<"H","E","A","L","T","H","C","A","R","E">>
AddressPune == <<"S","a","s","s","o","o","n"," ","R","o","a","d",","," ","P","u","n","e">>
AddressPuneUpper == <<"S","A","S","S","O","O","N"," ","R","O","A","D",","," ","P","U","N","E">>
AddressPanaji == <<"M","G"," ","R","o","a","d",","," ","P","a","n","a","j","i">>

HospitalInputs ==
  [name : {NameRubyHall, NameClinic, NameHospital, NameCityHospital,
           NameCityHospitalPune, NameHealthcareUpper},
   address : {AddressPune, AddressPuneUpper, AddressPanaji},
   city : {Pune, PuneLower, Goa}]

\* the eight valid groups and some values that are not blood groups
CompatibleInputs == BloodGroups \cup {"", "O", "a+", "C+", "constructor", "__proto__"}

\* The document each sub-check is handed: the probed fields, with the other
\* fields those of an unsuspicious request.
\* Times of the call and of the last donation (none, in the future, just
\* now, and around 56 days = 1344 hours before the call)
CanDonateInputs ==
  [t : {2000}, lastDonation : {NoDonation}]
    \cup [t : {2000},
          lastDonation : { <<2000 - e>> : e \in {0 - 24, 0, 1, 1343, 1344, 1345, 2000} }]

\* n more donors around the request: every fifth one of a group that cannot
\* give to A+, every seventh one unavailable, every eleventh one too far
Crowd(n) ==
  { [id |-> "c" \o ToString(k), role |-> "donor",
     bloodGroup |-> IF k % 5 = 0 THEN "B+" ELSE "O+",
     isAvailable |-> k % 7 # 0,
     coordinates |-> <<IF k % 11 = 0 THEN 21 + k ELSE k % 21>>,
     email |-> TRUE] : k \in 1..n }

\* The users collection, the request and the sends that throw, for a call
\* of notifyNearbyDonors
NotifyInputs ==
  [crowd : {0, MaxCrowd - 1, MaxCrowd, 2 * MaxCrowd},
   bloodGroup : {"A+", "O-"},
   throwing : {{}, {"d1"}, {"c1", "c3"}}]

LocationRequest(in) ==
  NewBloodRequest(
    RequestBody("high", 2, in, PhonesDistinct, ReasonSpecific, HospitalNamed, 100, 0),
    Alice)

ContactRequest(in) ==
  NewBloodRequest(RequestBody("high", 2, LocSame, in, ReasonSpecific, HospitalNamed, 100, 0),
                  Alice)

TimingRequest(in) ==
  NewBloodRequest(
    RequestBody("high", 2, LocSame, PhonesDistinct, ReasonSpecific, HospitalNamed,
                in.requiredIn, in.t),
    Alice)

HospitalRequest(in) ==
  NewBloodRequest(
    RequestBody("high", 2, [coordinates |-> <<0>>, city |-> in.city, state |-> StateMH],
                PhonesDistinct, ReasonSpecific, [name |-> in.name, address |-> in.address],
                100, 0),
    Alice)

NewProbe(kind, in) == [kind |-> kind, in |-> in, done |-> FALSE, result |-> 0]

InitSubChecks ==
  /\ now = 0
  /\ db = NoRequest
  /\ post = PostIdle
  /\ put = NoPut
  /\ outbox = {}
  /\ ops = NoOps
  /\ respond = NoCalls
  /\ auth = NoAuth
  /\ limiter = NoLimiter
  /\ \/ \E in \in FrequencyInputs : probe = NewProbe("frequency", in)
     \/ \E in \in LocationInputs : probe = NewProbe("location", in)
     \/ \E in \in ContactInputs : probe = NewProbe("contact", in)
     \/ \E in \in TimingInputs : probe = NewProbe("timing", in)
     \/ \E in \in HospitalInputs : probe = NewProbe("hospital", in)
     \/ \E in \in CompatibleInputs :
          probe = [kind |-> "compatible", in |-> in, done |-> FALSE, result |-> {}]
     \/ \E in \in CanDonateInputs :
          probe = [kind |-> "canDonate", in |-> in, done |-> FALSE, result |-> FALSE]
     \/ \E in \in NotifyInputs :
          probe = [kind |-> "notify", in |-> in, done |-> FALSE,
                   result |-> [contacted |-> <<>>, notifiedDonors |-> <<>>]]

ProbeFrequency ==
  /\ probe.kind = "frequency"
  /\ ~probe.done
  /\ probe' = [probe EXCEPT
                 !.done = TRUE,
                 !.result = analyzeRequestFrequency(probe.in)]
  /\ UNCHANGED <<now, db, post, put, outbox, ops, respond, auth, limiter>>

ProbeLocation ==
  /\ probe.kind = "location"
  /\ ~probe.done
  /\ probe' = [probe EXCEPT
                 !.done = TRUE,
                 !.result = analyzeLocationConsistency(LocationRequest(probe.in), Alice)]
  /\ UNCHANGED <<now, db, post, put, outbox, ops, respond, auth, limiter>>

ProbeContact ==
  /\ probe.kind = "contact"
  /\ ~probe.done
  /\ probe' = [probe EXCEPT
                 !.done = TRUE,
                 !.result = analyzeContactPatterns(ContactRequest(probe.in), Alice)]
  /\ UNCHANGED <<now, db, post, put, outbox, ops, respond, auth, limiter>>

ProbeTiming ==
  /\ probe.kind = "timing"
  /\ ~probe.done
  /\ probe' = [probe EXCEPT
                 !.done = TRUE,
                 !.result = analyzeTimingPatterns(TimingRequest(probe.in), probe.in.t)]
  /\ UNCHANGED <<now, db, post, put, outbox, ops, respond, auth, limiter>>

ProbeHospital ==
  /\ probe.kind = "hospital"
  /\ ~probe.done
  /\ probe' = [probe EXCEPT
                 !.done = TRUE,
                 !.result = analyzeHospitalInfo(HospitalRequest(probe.in))]
  /\ UNCHANGED <<now, db, post, put, outbox, ops, respond, auth, limiter>>

\* bloodRequest.getCompatibleBloodGroups() on a document of the given group
ProbeCompatible ==
  /\ probe.kind = "compatible"
  /\ ~probe.done
  /\ probe' = [probe EXCEPT
                 !.done = TRUE,
                 !.result = getCompatibleBloodGroups(probe.in)]
  /\ UNCHANGED <<now, db, post, put, outbox, ops, respond, auth, limiter>>

\* user.canDonate() at time t
ProbeCanDonate ==
  /\ probe.kind = "canDonate"
  /\ ~probe.done
  /\ probe' = [probe EXCEPT
                 !.done = TRUE,
                 !.result = canDonate([lastDonation |-> probe.in.lastDonation],
                                      probe.in.t)]
  /\ UNCHANGED <<now, db, post, put, outbox, ops, respond, auth, limiter>>

\* notificationService.notifyNearbyDonors(bloodRequest)
ProbeNotify ==
  /\ probe.kind = "notify"
  /\ ~probe.done
  /\ probe' = [probe EXCEPT
                 !.done = TRUE,
                 !.result = notifyNearbyDonors(
                               Donors \cup Crowd(probe.in.crowd),
                               [bloodGroup |-> probe.in.bloodGroup,
                                location |-> [coordinates |-> <<0>>]],
                               probe.in.throwing)]
  /\ UNCHANGED <<now, db, post, put, outbox, ops, respond, auth, limiter>>

NextSubChecks ==
  \/ ProbeFrequency
  \/ ProbeLocation
  \/ ProbeContact
  \/ ProbeTiming
  \/ ProbeHospital
  \/ ProbeCompatible
  \/ ProbeCanDonate
  \/ ProbeNotify

SpecSubChecks == InitSubChecks /\ [][NextSubChecks]_vars

-----------------------------------------------------------------------------
(* Properties of the sub-checks *)

\* the score analyzeRequest returns on the probe's inputs with the 24-hour
\* count replaced by d
ScoreWithDaily(d) ==
  analyzeRequest(ProbeRequest(probe.in), probe.in.requester,
                 [probe.in.counts EXCEPT !.daily = d], probe.in.t).score

\* C13: with the 7-day and 30-day counts, the request, the requester and the
\* clock fixed, a larger 24-hour count never gives a smaller fraud score.
C13_ScoreMonotoneInDailyCount ==
  (probe.kind = "analyze" /\ probe.done /\ ~probe.in.counts.fails)
    => \A d \in 0..MaxDailyCount :
         d > probe.in.counts.daily => ScoreWithDaily(d) >= probe.result.score

\* A score that is strictly higher with 4 requests in 24 hours than with 2.
C13_Witness ==
  /\ probe.kind = "analyze"
  /\ probe.done
  /\ probe.in.counts.daily = 2
  /\ probe.result.score > 0
  /\ ScoreWithDaily(4) > probe.result.score

\* C14: the frequency sub-score is min(25, d + w + m), d being 25/15/5/0 for
\* a 24-hour count above 3/above 2/above 1/otherwise, w 20/10/5/0 for a 7-day
\* count above 10/above 7/above 5/otherwise, m 15/8/0 for a 30-day count above
\* 20/above 15/otherwise; with 4 or more requests in 24 hours it is 25
\* whatever the other two counts.
C14_FrequencyFormula ==
  (probe.kind = "frequency" /\ probe.done)
    => LET c == probe.in
           d == IF c.daily > 3 THEN 25 ELSE IF c.daily > 2 THEN 15
                ELSE IF c.daily > 1 THEN 5 ELSE 0
           w == IF c.weekly > 10 THEN 20 ELSE IF c.weekly > 7 THEN 10
                ELSE IF c.weekly > 5 THEN 5 ELSE 0
           m == IF c.monthly > 20 THEN 15 ELSE IF c.monthly > 15 THEN 8 ELSE 0
       IN /\ probe.result = (IF d + w + m > 25 THEN 25 ELSE d + w + m)
          /\ c.daily >= 4 => probe.result = 25

\* Two tiers below the cap were added up: 15 for 3 requests in 24 hours and
\* 5 for 6 in 7 days.
C14_Witness ==
  /\ probe.kind = "frequency"
  /\ probe.done
  /\ probe.in.daily = 3
  /\ probe.in.weekly = 6
  /\ probe.in.monthly = 0
  /\ probe.result = 20

\* C15: the timing sub-score is min(15, n + u), n being 5 when the local
\* hour of creation is 23 or 0..5 and 0 otherwise, u being 15 when required-by
\* is under 2 hours away, 10 when it is more than 30 days (720 hours) away
\* and 0 otherwise.
C15_TimingFormula ==
  (probe.kind = "timing" /\ probe.done)
    => LET hour == probe.in.t % 24
           n == IF hour \in {23, 0, 1, 2, 3, 4, 5} THEN 5 ELSE 0
           u == IF probe.in.requiredIn < 2 THEN 15
                ELSE IF probe.in.requiredIn > 720 THEN 10 ELSE 0
       IN probe.result = (IF n + u > 15 THEN 15 ELSE n + u)

\* C16: the location sub-score is min(20, t + 10 if the cities differ
\* ignoring case + 15 if the states differ ignoring case), t being 20/10/5/0
\* for a distance above 100 km/above 50/above 25/otherwise; 120 km away with
\* another city it is exactly 20.
C16_LocationFormula ==
  (probe.kind = "location" /\ probe.done)
    => LET a == Alice.location.coordinates[1]
           b == probe.in.coordinates[1]
           km == IF a > b THEN a - b ELSE b - a
           t == IF km > 100 THEN 20 ELSE IF km > 50 THEN 10 ELSE IF km > 25 THEN 5 ELSE 0
           city == IF toLowerCase(Alice.location.city) # toLowerCase(probe.in.city)
                   THEN 10 ELSE 0
           state == IF toLowerCase(Alice.location.state) # toLowerCase(probe.in.state)
                    THEN 15 ELSE 0
       IN /\ probe.result = (IF t + city + state > 20 THEN 20 ELSE t + city + state)
          /\ (km = 120 /\ city = 10) => probe.result = 20

\* A request 26 km away whose city and state are the requester's written in
\* another case scored the distance tier alone.
C16_Witness ==
  /\ probe.kind = "location"
  /\ probe.done
  /\ probe.in = [coordinates |-> <<26>>, city |-> PuneLower, state |-> StateMHLower]
  /\ probe.result = 5

\* the digit string is 7 or more copies of one digit, or one of the two
\* counting sequences
IsPhonePattern(digits) ==
  \/ Len(digits) >= 7 /\ \A i \in 1..Len(digits) : digits[i] = digits[1]
  \/ digits \in {PhoneAscending, PhoneFromZero}

\* C17: the contact sub-score is min(15, 5 if the primary phone differs from
\* the requester's registered phone + 10 if the primary phone's digits are a
\* pattern + 8 if two of the doctor, hospital and contact phones have the same
\* digits); it is 0 when the contact phone is the requester's, is no pattern
\* and the three phones are pairwise distinct.
C17_ContactFormula ==
  (probe.kind = "contact" /\ probe.done)
    => LET contact == digitsOnly(probe.in.primary)
           doctor == digitsOnly(probe.in.doctor)
           hospital == digitsOnly(probe.in.hospital)
           differs == IF probe.in.primary # Alice.phone THEN 5 ELSE 0
           pattern == IF IsPhonePattern(contact) THEN 10 ELSE 0
           shared == IF doctor = hospital \/ doctor = contact \/ hospital = contact
                     THEN 8 ELSE 0
       IN /\ probe.result
               = (IF differs + pattern + shared > 15 THEN 15 ELSE differs + pattern + shared)
          /\ (differs = 0 /\ pattern = 0 /\ shared = 0) => probe.result = 0

\* The requester's own phone with a distinct doctor and hospital scored 0.
C17_Witness ==
  /\ probe.kind = "contact"
  /\ probe.done
  /\ probe.in = [primary |-> PhoneA, doctor |-> PhoneDoctor, hospital |-> PhoneHospital]
  /\ probe.result = 0

\* C18: the hospital sub-score is min(15, 10 if the lower-cased hospital
\* name is one of the six generic names + 8 if the lower-cased address does
\* not contain the lower-cased request city).
C18_HospitalFormula ==
  (probe.kind = "hospital" /\ probe.done)
    => LET name == toLowerCase(probe.in.name)
           generic == IF name \in genericNames THEN 10 ELSE 0
           absent == IF includes(toLowerCase(probe.in.address), toLowerCase(probe.in.city))
                     THEN 0 ELSE 8
       IN probe.result = (IF generic + absent > 15 THEN 15 ELSE generic + absent)

\* A name that contains "city hospital" without being it, at an address in
\* the request's city, scored 0.
C18_Witness ==
  /\ probe.kind = "hospital"
  /\ probe.done
  /\ probe.in = [name |-> NameCityHospitalPune, address |-> AddressPuneUpper, city |-> Pune]
  /\ probe.result = 0

\* C19: on every analysis that did not fail the risk level is the tier of
\* the returned score: "high" from 70, "medium" from 40 to 69, "low" from 20
\* to 39, "minimal" below 20.
C19_RiskLevelOfScore ==
  (probe.kind = "analyze" /\ probe.done /\ ~probe.result.error)
    => LET score == probe.result.score
       IN probe.result.riskLevel
            = (IF score >= 70 THEN "high"
               ELSE IF score >= 40 THEN "medium"
               ELSE IF score >= 20 THEN "low" ELSE "minimal")

\* An analysis returned score exactly 40 with risk level "medium".
C19_Witness ==
  /\ probe.kind = "analyze"
  /\ probe.done
  /\ ~probe.result.error
  /\ probe.result.score = 40
  /\ probe.result.riskLevel = "medium"

\* C20: for each of the 8 valid recipient groups getCompatibleBloodGroups
\* returns exactly the donor set of the ABO/Rh table, which is non-empty and
\* contains O-; for any other input it returns the empty set.
C20_CompatibilityTable ==
  (probe.kind = "compatible" /\ probe.done)
    => LET g == probe.in
           all == {"A+", "A-", "B+", "B-", "AB+", "AB-", "O+", "O-"}
       IN /\ g = "A+" => probe.result = {"A+", "A-", "O+", "O-"}
          /\ g = "A-" => probe.result = {"A-", "O-"}
          /\ g = "B+" => probe.result = {"B+", "B-", "O+", "O-"}
          /\ g = "B-" => probe.result = {"B-", "O-"}
          /\ g = "AB+" => probe.result = all
          /\ g = "AB-" => probe.result = {"A-", "B-", "AB-", "O-"}
          /\ g = "O+" => probe.result = {"O+", "O-"}
          /\ g = "O-" => probe.result = {"O-"}
          /\ g \in all => (probe.result # {} /\ "O-" \in probe.result)
          /\ g \notin all => probe.result = {}

-----------------------------------------------------------------------------
(* POST /api/blood-requests/:id/respond, as the steps between its awaits *)

\* The donors who answer requests: two the fan-out reaches and one it does not.
Responders == {d \in Donors : d.id \in {"d1", "d2", "d7"}}

\* bloodRequest.responses.find(response => response.donor equals donor._id)
existingResponse(responses, donorId) ==
  \E k \in 1..Len(responses) : responses[k].donor = donorId

RespondAnswer(donor, status, reason) ==
  [pc |-> "done", donor |-> donor.id, doc |-> NoRequest, status |-> status,
   reason |-> reason]

\* findById, the four early returns, and the push onto the in-memory
\* document (of which the status and the responses are kept); the
\* compatible set is computed from the DONOR's blood group and the
\* request's group is looked up in it.  Calls take their numbers in the
\* order in which they arrive.
RespondFind(i, donor) ==
  /\ respond.calls[i].pc = "idle"
  /\ \A j \in RespondCalls : j < i => respond.calls[j].pc # "idle"
  /\ donor \in Responders
  /\ respond' = [respond EXCEPT !.calls[i] =
       IF db = NoRequest
       THEN RespondAnswer(donor, 404, "not found")
       ELSE IF db.status # "active"
       THEN RespondAnswer(donor, 400, "not active")
       ELSE IF db.bloodGroup \notin getCompatibleBloodGroups(donor.bloodGroup)
       THEN RespondAnswer(donor, 400, "incompatible")
       ELSE IF existingResponse(db.responses, donor.id)
       THEN RespondAnswer(donor, 400, "repeated")
       ELSE [pc |-> "saving", donor |-> donor.id,
             doc |-> [status |-> db.status,
                      responses |-> Append(db.responses,
                                           [donor |-> donor.id, status |-> "interested"])],
             status |-> 0, reason |-> "none"]]
  /\ UNCHANGED <<now, db, post, put, outbox, ops, probe, auth, limiter>>

\* await bloodRequest.save(): the pushed element is appended to the stored
\* array ($push, with no check of what was stored since the find), or the
\* save rejects and the catch answers 500
RespondSave(i) ==
  /\ respond.calls[i].pc = "saving"
  /\ LET call == respond.calls[i]
         pushed == call.doc.responses[Len(call.doc.responses)]
     IN \E stored \in BOOLEAN :
          IF stored
          THEN /\ db' = [db EXCEPT !.responses = Append(@, pushed)]
               /\ respond' = [respond EXCEPT !.calls[i].pc = "notifying"]
          ELSE /\ db' = db
               /\ respond' = [respond EXCEPT !.calls[i] =
                                [call EXCEPT !.pc = "done", !.doc = NoRequest,
                                             !.status = 500, !.reason = "save"]]
  /\ UNCHANGED <<now, post, put, outbox, ops, probe, auth, limiter>>

\* notifyRequesterOfResponse in its try/catch, then populate and the answer
RespondNotify(i) ==
  /\ respond.calls[i].pc = "notifying"
  /\ \E sent \in BOOLEAN, populated \in BOOLEAN :
       respond' = [respond EXCEPT
                     !.notified = IF sent THEN @ \cup {respond.calls[i].donor} ELSE @,
                     !.calls[i] = [@ EXCEPT
                                     !.pc = "done",
                                     !.doc = NoRequest,
                                     !.status = IF populated THEN 200 ELSE 500,
                                     !.reason = IF populated THEN "none" ELSE "populate"]]
  /\ UNCHANGED <<now, db, post, put, outbox, ops, probe, auth, limiter>>

-----------------------------------------------------------------------------
(* GET /api/blood-requests/nearby *)

NearbyRadiusKm == 20

\* The requests the query returns to the donor: within the radius, active,
\* and with a blood group in the compatible set computed from the DONOR's
\* blood group.
nearbyRequests(donor, radius) ==
  { r \in {db} :
      /\ r # NoRequest
      /\ calculateDistance(r.location.coordinates, donor.coordinates) >= 0
      /\ calculateDistance(r.location.coordinates, donor.coordinates) <= radius
      /\ r.bloodGroup \in getCompatibleBloodGroups(donor.bloodGroup)
      /\ r.status = "active" }

-----------------------------------------------------------------------------
(* The admin routes that write a blood request *)

\* the review written by replacing fraudCheck with a fresh sub-document
AdminReviewFraud_ReplaceFraudCheck(isReviewed) ==
  /\ isReviewed \in BOOLEAN
  /\ \E stored \in BOOLEAN :
       db' = IF db # NoRequest /\ stored
             THEN [db EXCEPT
                     !.fraudCheck = [score |-> 0, factors |-> <<>>],
                     !.fraudReview = [isReviewed |-> isReviewed,
                                      reviewedBy |-> Admin.id]]
             ELSE db
  /\ UNCHANGED <<now, post, put, outbox, ops, probe, respond, auth, limiter>>

\* PUT /api/admin/requests/:id/review-fraud: findById (404 when there is
\* none), the review fields of fraudCheck assigned, save() of the modified
\* paths (500 when it rejects)
AdminReviewFraud(isReviewed) ==
  /\ isReviewed \in BOOLEAN
  /\ \E stored \in BOOLEAN :
       db' = IF db # NoRequest /\ stored
             THEN [db EXCEPT
                     !.fraudReview = [isReviewed |-> isReviewed,
                                      reviewedBy |-> Admin.id]]
             ELSE db
  /\ UNCHANGED <<now, post, put, outbox, ops, probe, respond, auth, limiter>>

\* PUT /api/admin/requests/:id/status: findByIdAndUpdate(id, {status})
\* (404 when there is none, 500 when the update rejects)
AdminUpdateStatus(status) ==
  /\ status \in Statuses
  /\ \E stored \in BOOLEAN :
       db' = IF db # NoRequest /\ stored
             THEN [db EXCEPT !.status = status]
             ELSE db
  /\ UNCHANGED <<now, post, put, outbox, ops, probe, respond, auth, limiter>>

-----------------------------------------------------------------------------
(* A request from its creation on: the fan-out, updates, responses, reviews *)

\* The creations the life of a request is followed from: two whose fan-out
\* runs (one scored 0, one with factors) and one whose fan-out is withheld.
LifeScenarios ==
  { c \in PostScenarios :
      \/ c.urgency = "low"
      \/ c.phones = PhonesShared
      \/ c.urgency = "critical" /\ c.unitsNeeded = 10 }

\* The updates sent during the life of a request.
LifeBodies == { b \in PutBodies : DOMAIN b \in {{"status"}, {"urgency", "requiredBy", "unitsNeeded", "priority", "fraudCheck", "requester"}} }

\* The statuses the admin sets during the life of a request.
LifeStatuses == {"active", "fulfilled"}

NextRequests ==
  \/ \E c \in LifeScenarios : PostAnalyze(c)
  \/ PostPriority
  \/ PostSave
  \/ PostNotifyQuery
  \/ PostSkipNotify
  \/ PostNotifyDonor
  \/ PostNotifySave
  \/ PostRespond
  \/ \E caller \in {Alice, Bob}, body \in LifeBodies : UpdateRequest(caller, body)
  \/ \E donor \in Responders : RespondFind(1, donor)
  \/ RespondSave(1)
  \/ RespondNotify(1)
  \/ AdminReviewFraud(TRUE)
  \/ \E status \in LifeStatuses : AdminUpdateStatus(status)

SpecRequests == Init /\ [][NextRequests]_vars

-----------------------------------------------------------------------------
(* Concurrent respond calls on one stored request *)

\* The document POST /api/blood-requests stores for scenario c at time t
\* when every step succeeds, with its notification records saved.
StoredRequest(c, t) ==
  LET bloodRequest == NewBloodRequest(ScenarioBody(c, t), Alice)
      fraudScore == analyzeRequest(bloodRequest, Alice, c.counts, t)
      scored == [bloodRequest EXCEPT !.fraudCheck = [score |-> fraudScore.score,
                                                     factors |-> fraudScore.factors]]
      saved == PreSave([scored EXCEPT !.priority = calculatePriority(scored, t)], t)
  IN IF fraudScore.score < NotifyThreshold
     THEN [saved EXCEPT !.notifiedDonors = Notifications(NearbyDonors(saved), {})]
     ELSE saved

InitRespond ==
  /\ now \in StartHours
  /\ db \in {NoRequest} \cup { StoredRequest(c, now) : c \in LifeScenarios }
  /\ post = PostIdle
  /\ put = NoPut
  /\ outbox = {}
  /\ ops = NoOps
  /\ probe = NoProbe
  /\ respond = NoCalls
  /\ auth = NoAuth
  /\ limiter = NoLimiter

NextRespond ==
  \/ \E i \in RespondCalls, donor \in Responders : RespondFind(i, donor)
  \/ \E i \in RespondCalls : RespondSave(i)
  \/ \E i \in RespondCalls : RespondNotify(i)
  \/ \E status \in LifeStatuses : AdminUpdateStatus(status)

SpecRespond == InitRespond /\ [][NextRespond]_vars

-----------------------------------------------------------------------------
(* userRateLimit(maxRequests, windowMs): one instance and the requests it sees *)

\* router.post('/', verifyToken, authorize(...), userRateLimit(5, 60 * 60 * 1000))
CreateLimit == 5
CreateWindowHours == 1

\* The instances exercised: the one of request creation, seen by one user,
\* and a smaller one with a longer window, seen by two users.
LimiterSetups ==
  { [maxRequests |-> CreateLimit, windowMs |-> CreateWindowHours, users |-> {"alice"}],
    [maxRequests |-> 2, windowMs |-> 2, users |-> {"alice", "bob"}] }

\* userRequests: the Map of the closure; admitted: every time at which the
\* middleware called next() for the user (not kept by the program)
NewLimiter(setup) ==
  [maxRequests |-> setup.maxRequests,
   windowMs |-> setup.windowMs,
   userRequests |-> [u \in setup.users |-> <<>>],
   admitted |-> [u \in setup.users |-> <<>>],
   last |-> [user |-> "none", answer |-> "none"]]

InitRateLimit ==
  /\ now \in StartHours
  /\ db = NoRequest
  /\ post = PostIdle
  /\ put = NoPut
  /\ outbox = {}
  /\ ops = NoOps
  /\ probe = NoProbe
  /\ respond = NoCalls
  /\ auth = NoAuth
  /\ \E setup \in LimiterSetups : limiter = NewLimiter(setup)

\* userRequestTimes.filter(time => time > windowStart)
validRequests(userRequestTimes, windowStart) ==
  SelectSeq(userRequestTimes, LAMBDA time : time > windowStart)

\* the limit compared with > instead of >=
userRateLimit_OneMore(userId) ==
  /\ userId \in DOMAIN limiter.userRequests
  /\ LET valid == validRequests(limiter.userRequests[userId], now - limiter.windowMs)
     IN limiter' =
          IF Len(valid) > limiter.maxRequests
          THEN [limiter EXCEPT !.last = [user |-> userId, answer |-> "429"]]
          ELSE [limiter EXCEPT
                  !.userRequests[userId] = Append(valid, now),
                  !.admitted[userId] = Append(@, now),
                  !.last = [user |-> userId, answer |-> "next"]]
  /\ UNCHANGED <<now, db, post, put, outbox, ops, probe, respond, auth>>

\* The middleware for a request of an authenticated user: 429 without a
\* write to the Map, or the filtered times with now pushed are stored and
\* next() is called.
userRateLimit(userId) ==
  /\ userId \in DOMAIN limiter.userRequests
  /\ LET valid == validRequests(limiter.userRequests[userId], now - limiter.windowMs)
     IN limiter' =
          IF Len(valid) >= limiter.maxRequests
          THEN [limiter EXCEPT !.last = [user |-> userId, answer |-> "429"]]
          ELSE [limiter EXCEPT
                  !.userRequests[userId] = Append(valid, now),
                  !.admitted[userId] = Append(@, now),
                  !.last = [user |-> userId, answer |-> "next"]]
  /\ UNCHANGED <<now, db, post, put, outbox, ops, probe, respond, auth>>

NextRateLimit ==
  \/ Tick
  \/ \E userId \in {"alice", "bob"} : userRateLimit(userId)

SpecRateLimit == InitRateLimit /\ [][NextRateLimit]_vars

-----------------------------------------------------------------------------
(* POST /api/auth/login and verifyToken on one account, one call at a time *)

InitLogin ==
  /\ now \in StartHours
  /\ db = NoRequest
  /\ post = PostIdle
  /\ put = NoPut
  /\ outbox = {}
  /\ ops = NoOps
  /\ probe = NoProbe
  /\ respond = NoCalls
  /\ auth = NoAuth
  /\ limiter = NoLimiter

\* An hour passes.
HourPasses ==
  /\ \E s \in StartHours : s <= now /\ now - s < MaxLockHours
  /\ now' = now + 1
  /\ UNCHANGED <<db, post, put, outbox, ops, probe, respond, auth, limiter>>

\* failedChecks after a failed check whose update is `updated`
CountFailure(this, updated, t) ==
  IF this.lockUntil # NoLock /\ this.lockUntil < t THEN 1
  ELSE IF updated.lockUntil # this.lockUntil THEN 0
  ELSE auth.failedChecks + 1

\* The login handler for the account's e-mail, run from findOne to its
\* answer: 423 if locked, 401 after incFailedAttempts if the password is
\* wrong, else resetFailedAttempts and 200.
Login(correct) ==
  /\ correct \in BOOLEAN
  /\ LET user == auth.user
     IN auth' =
          IF isLocked(user, now)
          THEN [auth EXCEPT !.last = [route |-> "login", correct |-> correct,
                                      status |-> 423]]
          ELSE IF ~correct
          THEN [auth EXCEPT
                  !.user = incFailedAttempts(user, user, now),
                  !.failedChecks =
                     CountFailure(user, incFailedAttempts(user, user, now), now),
                  !.last = [route |-> "login", correct |-> correct, status |-> 401]]
          ELSE [auth EXCEPT
                  !.user = resetFailedAttempts(user),
                  !.failedChecks = 0,
                  !.last = [route |-> "login", correct |-> correct, status |-> 200]]
  /\ UNCHANGED <<now, db, post, put, outbox, ops, probe, respond, limiter>>

\* verifyToken for a valid token of the account: 423 if locked, else next()
\* (recorded as 200)
verifyToken ==
  /\ auth' = [auth EXCEPT
                !.last = [route |-> "token", correct |-> FALSE,
                          status |-> IF isLocked(auth.user, now) THEN 423 ELSE 200]]
  /\ UNCHANGED <<now, db, post, put, outbox, ops, probe, respond, limiter>>

NextLogin ==
  \/ HourPasses
  \/ \E correct \in BOOLEAN : Login(correct)
  \/ verifyToken

SpecLogin == InitLogin /\ [][NextLogin]_vars

-----------------------------------------------------------------------------
(* Failed logins on one account whose reads and updates interleave *)

\* findOne, the isLocked check (423) and the password check, which fails:
\* the call goes on holding the user as it has read it
LoginFind(a) ==
  /\ auth.calls[a].pc = "idle"
  /\ auth' =
       IF isLocked(auth.user, now)
       THEN [auth EXCEPT !.last = [route |-> "login", correct |-> FALSE,
                                   status |-> 423]]
       ELSE [auth EXCEPT
               !.calls[a] = [pc |-> "failed", this |-> auth.user],
               !.failedChecks = @ + 1]
  /\ UNCHANGED <<now, db, post, put, outbox, ops, probe, respond, limiter>>

\* await user.incFailedAttempts(), then 401
LoginFail(a) ==
  /\ auth.calls[a].pc = "failed"
  /\ LET this == auth.calls[a].this
         updated == incFailedAttempts(this, auth.user, now)
     IN auth' = [auth EXCEPT
                   !.user = updated,
                   !.calls[a] = IdleLogin,
                   !.failedChecks =
                      IF this.lockUntil # NoLock /\ this.lockUntil < now THEN 1
                      ELSE IF updated.lockUntil # auth.user.lockUntil THEN 0
                      ELSE @,
                   !.last = [route |-> "login", correct |-> FALSE, status |-> 401]]
  /\ UNCHANGED <<now, db, post, put, outbox, ops, probe, respond, limiter>>

NextLoginRace ==
  \/ HourPasses
  \/ \E a \in LoginCalls : LoginFind(a)
  \/ \E a \in LoginCalls : LoginFail(a)

SpecLoginRace == InitLogin /\ [][NextLoginRace]_vars

-----------------------------------------------------------------------------
(* Properties of a request's life after its creation *)

\* C21: once a request is stored, whatever operations follow (updates by
\* the owner or an admin, donor responses, the save of the notification
\* records, the admin's fraud review and status change), the stored
\* fraudCheck.factors are the factor/weight pairs the scorer returned at
\* creation, in the same order.
C21_FactorsAsScored ==
  db # NoRequest => db.fraudCheck.factors = post.analysis.factors

\* A request scored with at least one factor has since had its notification
\* records saved, been answered by a donor, been reviewed, and had its
\* status changed by the admin after an update by its owner was stored.
C21_Witness ==
  /\ db # NoRequest
  /\ Len(db.fraudCheck.factors) >= 2
  /\ Len(db.notifiedDonors) >= 1
  /\ Len(db.responses) >= 1
  /\ db.fraudReview.isReviewed
  /\ put.status = 200
  /\ db.status = "fulfilled"

-----------------------------------------------------------------------------
(* Properties of the user model and the middleware *)

\* C22: canDonate answers true exactly when the donor has no recorded last
\* donation or at least 56 days (1344 hours) have passed since it, and false
\* for any last donation less than 56 days ago.
C22_CanDonate ==
  (probe.kind = "canDonate" /\ probe.done)
    => LET last == probe.in.lastDonation
       IN /\ probe.result <=> (Len(last) = 0 \/ probe.in.t - last[1] >= 1344)
          /\ (Len(last) = 1 /\ probe.in.t - last[1] < 1344) => ~probe.result

\* A donor whose last donation was exactly 56 days before the call may donate.
C22_Witness ==
  /\ probe.kind = "canDonate"
  /\ probe.done
  /\ Len(probe.in.lastDonation) = 1
  /\ probe.in.t - probe.in.lastDonation[1] = 1344
  /\ probe.result

\* the number of requests of the user admitted at times in (t - windowMs, t]
AdmittedInWindow(userId, t) ==
  Cardinality({ k \in DOMAIN limiter.admitted[userId] :
                  /\ limiter.admitted[userId][k] > t - limiter.windowMs
                  /\ limiter.admitted[userId][k] <= t })

\* C23: for each user, the requests admitted within any window of length
\* windowMs (a window ending at t holds the times after t - windowMs up to
\* t) number at most maxRequests; a request of a user who has maxRequests
\* admitted requests in the trailing window is answered 429 and recorded
\* nowhere, any other request is admitted and recorded for that user, and
\* no request changes what is recorded for another user.
C23_RateLimit ==
  /\ [](\A userId \in DOMAIN limiter.admitted : \A t \in 0..now :
          AdmittedInWindow(userId, t) <= limiter.maxRequests)
  /\ [][(limiter' # limiter)
          => LET userId == limiter'.last.user
             IN /\ IF AdmittedInWindow(userId, now) >= limiter.maxRequests
                   THEN /\ limiter'.last.answer = "429"
                        /\ limiter'.admitted = limiter.admitted
                        /\ limiter'.userRequests = limiter.userRequests
                   ELSE /\ limiter'.last.answer = "next"
                        /\ limiter'.admitted[userId] = Append(limiter.admitted[userId], now)
                /\ \A other \in DOMAIN limiter.admitted \ {userId} :
                     /\ limiter'.admitted[other] = limiter.admitted[other]
                     /\ limiter'.userRequests[other] = limiter.userRequests[other]]_vars

\* The creation limiter has admitted five requests of a user within the
\* hour and answered the sixth with 429.
C23_Witness ==
  /\ limiter.maxRequests = 5
  /\ limiter.last.answer = "429"
  /\ AdmittedInWindow("alice", now) = 5

NotifiedIds == { db.notifiedDonors[k].donor : k \in DOMAIN db.notifiedDonors }

\* the respond calls that have passed the handler's compatibility check
PassedCheck(donorId) ==
  \E i \in RespondCalls :
    /\ respond.calls[i].donor = donorId
    /\ \/ respond.calls[i].pc \in {"saving", "notifying"}
       \/ respond.calls[i].reason \in {"none", "save", "populate"}

\* C24: notification, GET /nearby and respond apply compatibility in the
\* same direction: a donor is notified about the request, is shown it by
\* /nearby, or gets past the check of respond, only if the donor's blood
\* group is in the compatible-donor set of the request's blood group; so no
\* notified donor is refused by respond as incompatible.
C24_SameDirection ==
  db # NoRequest =>
    \A d \in Donors :
      /\ d.id \in NotifiedIds
           => d.bloodGroup \in getCompatibleBloodGroups(db.bloodGroup)
      /\ db \in nearbyRequests(d, NearbyRadiusKm)
           => d.bloodGroup \in getCompatibleBloodGroups(db.bloodGroup)
      /\ PassedCheck(d.id)
           => d.bloodGroup \in getCompatibleBloodGroups(db.bloodGroup)
      /\ d.id \in NotifiedIds
           => \A i \in RespondCalls :
                ~(respond.calls[i].donor = d.id /\ respond.calls[i].reason = "incompatible")

-----------------------------------------------------------------------------
(* Properties of the donor fan-out *)

NotifyPool == Donors \cup Crowd(probe.in.crowd)

\* the user of the pool with the given id is a donor, available, of a group
\* that can give to the request's group, and within 20 km of the request
QualifiedDonor(id) ==
  \E d \in NotifyPool :
    /\ d.id = id
    /\ d.role = "donor"
    /\ d.isAvailable
    /\ d.bloodGroup \in getCompatibleBloodGroups(probe.in.bloodGroup)
    /\ (d.coordinates[1] <= 20 /\ d.coordinates[1] >= 0 - 20)

\* C25: every donor recorded in notifiedDonors after the fan-out is a user
\* with role donor, available, with a blood group in the request's
\* compatible-donor set and located within 20 km of the request; at most
\* 50 donors are contacted for a request; a donor whose send threw is not
\* recorded.
C25_NotifiedDonors ==
  (probe.kind = "notify" /\ probe.done)
    => /\ \A k \in DOMAIN probe.result.notifiedDonors :
            /\ QualifiedDonor(probe.result.notifiedDonors[k].donor)
            /\ probe.result.notifiedDonors[k].donor \notin probe.in.throwing
       /\ \A k \in DOMAIN probe.result.contacted :
            QualifiedDonor(probe.result.contacted[k])
       /\ Len(probe.result.contacted) <= 50
       /\ Len(probe.result.notifiedDonors) <= Len(probe.result.contacted)

\* More than 50 users qualify; 50 were contacted, two sends threw and 48
\* donors were recorded.
C25_Witness ==
  /\ probe.kind = "notify"
  /\ probe.done
  /\ Cardinality({ d \in NotifyPool : QualifiedDonor(d.id) }) > 50
  /\ Len(probe.result.contacted) = 50
  /\ Len(probe.result.notifiedDonors) = 48

-----------------------------------------------------------------------------
(* Properties of donor responses *)

ResponsesOf(donorId) ==
  { k \in DOMAIN db.responses : db.responses[k].donor = donorId }

\* C26: after any sequence of respond calls, two interleaved calls of one
\* donor included, the stored responses hold at most one response of each
\* donor, and of two calls by the same donor at most one is accepted (the
\* other is answered 400).
C26_OneResponsePerDonor ==
  /\ db # NoRequest
       => \A d \in Responders : Cardinality(ResponsesOf(d.id)) <= 1
  /\ \A i, j \in RespondCalls :
       (i # j /\ respond.calls[i].donor = respond.calls[j].donor)
         => ~(respond.calls[i].status = 200 /\ respond.calls[j].status = 200)

\* the donor of the given id
ResponderOf(donorId) == CHOOSE d \in Responders : d.id = donorId

\* C27: a response is appended only by a call that found the request
\* active; a respond call on a missing request is answered 404, and one on
\* a request that is not active, or by a donor whose blood group is not in
\* the compatible-donor set of the request's group, or by a donor who has
\* already responded is answered 400; such a call leaves the stored request
\* as it was and sends nothing to the requester.
C27_RejectedRespondChangesNothing ==
  [][\A i \in RespondCalls :
       /\ (respond.calls[i].pc = "idle" /\ respond'.calls[i].pc # "idle")
            => LET donor == ResponderOf(respond'.calls[i].donor)
                   refused == respond'.calls[i].status \in {400, 404}
               IN /\ db = NoRequest <=> respond'.calls[i].status = 404
                  /\ (db # NoRequest /\ db.status # "active") => refused
                  /\ (db # NoRequest
                        /\ donor.bloodGroup \notin getCompatibleBloodGroups(db.bloodGroup))
                       => refused
                  /\ (db # NoRequest /\ existingResponse(db.responses, donor.id))
                       => refused
                  /\ refused => (db' = db /\ respond'.notified = respond.notified)
                  /\ ~refused => respond'.calls[i].doc.status = "active"
       /\ (respond.calls[i].pc = "saving" /\ respond'.calls[i].pc # "saving"
             /\ db'.responses # db.responses)
            => respond.calls[i].doc.status = "active"]_vars

-----------------------------------------------------------------------------
(* Properties of the login lockout *)

C29_LockedAtFive ==
  /\ auth.user.loginAttempts >= 5 => auth.user.lockUntil # NoLock
  /\ auth.failedChecks <= 5

-----------------------------------------------------------------------------
(* Properties of PUT /api/blood-requests/:id *)

=============================================================================
